---- MODULE Spec2Model ----
(***************************************************************************)
(* Multi-broker authentication registry of open-stocks-mcp.                *)
(*                                                                         *)
(* The model covers brokers/base.py (AuthStatus, AuthInfo, availability,   *)
(* the unavailable response), the Robinhood and Schwab adapters'           *)
(* authenticate / is_authenticated / logout, a third adapter standing for  *)
(* any other BaseBroker subclass, and brokers/registry.py (BrokerRegistry).*)
(*                                                                         *)
(* Python dicts are insertion ordered: they are sequences of               *)
(* [name, value] entries here.  Python None is NoneVal.  datetime.now()    *)
(* values are abstracted to Now (a timestamp is either unset or set).      *)
(***************************************************************************)
EXTENDS Integers, Sequences, FiniteSets, TLC

\* ---------------------------------------------------------------- bounds
MaxInst == 2          \* broker objects constructed in one behaviour
MaxCalls == 2         \* adapter authenticate() calls made in one behaviour
MaxTasks == 3         \* tasks calling get_broker_registry() in one behaviour

\* ------------------------------------------------------------- constants
NoneVal == "<None>"
Absent == "<absent>"  \* a key the payload does not carry
Now == "<datetime>"
NoInst == 0

Inst == 1..MaxInst

NoTask == 0
Tasks == 1..MaxTasks
NoRef == 0            \* _registry is None
Kinds == {"robinhood", "schwab", "mock"}
Names == {"robinhood", "schwab", "test"}
Creds == {"both", "one", "none"}
ExcMessages == {"OAuth failed", ""}   \* str(e): Exception("OAuth failed"), TimeoutError()

\* BrokerAuthStatus members (base.py:10-19), and their .value strings
NOT_CONFIGURED == "NOT_CONFIGURED"
NOT_AUTHENTICATED == "NOT_AUTHENTICATED"
AUTHENTICATING == "AUTHENTICATING"
AUTHENTICATED == "AUTHENTICATED"
AUTH_FAILED == "AUTH_FAILED"
TOKEN_EXPIRED == "TOKEN_EXPIRED"
MFA_REQUIRED == "MFA_REQUIRED"

BrokerAuthStatus ==
  {NOT_CONFIGURED, NOT_AUTHENTICATED, AUTHENTICATING, AUTHENTICATED,
   AUTH_FAILED, TOKEN_EXPIRED, MFA_REQUIRED}

\* a slip: the member name instead of its .value
StatusValue_Name(s) == s

StatusValue(s) ==
  CASE s = NOT_CONFIGURED -> "not_configured"
    [] s = NOT_AUTHENTICATED -> "not_authenticated"
    [] s = AUTHENTICATING -> "authenticating"
    [] s = AUTHENTICATED -> "authenticated"
    [] s = AUTH_FAILED -> "auth_failed"
    [] s = TOKEN_EXPIRED -> "token_expired"
    [] s = MFA_REQUIRED -> "mfa_required"

\* ----------------------------------------------------------------- state
VARIABLES
  objs,                     \* broker objects: Inst -> adapter record
  brokers,                  \* BrokerRegistry._brokers (ordered dict)
  active_broker,            \* BrokerRegistry._active_broker
  authentication_attempts,  \* BrokerRegistry._authentication_attempts
  run,                      \* the authenticate_all / ensure_authenticated call in progress
  auth_calls,               \* number of adapter authenticate() calls made so far
  last,                     \* the operation that made the last step, and what it returned
  peer,                     \* the call another task has in progress at the same time
  registry_ref,             \* the module's global _registry
  registry_lock,            \* the task holding _registry_lock
  instances,                \* every BrokerRegistry() made: the names registered in it
  callers                   \* each task's get_broker_registry() call

\* the state of the get_broker_registry() singleton
singleton == <<registry_ref, registry_lock, instances, callers>>

vars ==
  <<objs, brokers, active_broker, authentication_attempts, run, auth_calls, last,
    peer, singleton>>

\* ------------------------------------------------------- ordered dict ops
Keys(d) == {d[i].name : i \in 1..Len(d)}

KeyList(d) == [i \in 1..Len(d) |-> d[i].name]

IndexOf(d, k) == CHOOSE i \in 1..Len(d) : d[i].name = k

DictGet(d, k, default) == IF k \in Keys(d) THEN d[IndexOf(d, k)].val ELSE default

DictSet(d, k, v) ==
  IF k \in Keys(d)
  THEN [i \in 1..Len(d) |-> IF d[i].name = k THEN [name |-> k, val |-> v] ELSE d[i]]
  ELSE Append(d, [name |-> k, val |-> v])

\* Python truthiness of an optional string
Falsy(x) == x = NoneVal \/ x = ""

\* ------------------------------------------------------------ base broker
\* BaseBroker.__init__: status NOT_CONFIGURED, every optional field unset
BaseBroker(kind, name) ==
  [kind |-> kind, name |-> name, status |-> NOT_CONFIGURED,
   last_auth_attempt |-> NoneVal, last_successful_auth |-> NoneVal,
   error_message |-> NoneVal, requires_setup |-> FALSE,
   setup_instructions |-> NoneVal, client |-> NoneVal]

NoObj == BaseBroker(NoneVal, NoneVal)

\* a slip: every broker that has not failed counts as available
is_available_NotFailed(b) == b.status \notin {NOT_CONFIGURED, AUTH_FAILED}

is_available(b) == b.status = AUTHENTICATED

\* a slip: every broker counts as configured
is_configured_Always(b) == TRUE

is_configured(b) == b.status # NOT_CONFIGURED

\* str.title() of the broker names in use
Title(name) ==
  CASE name = "robinhood" -> "Robinhood"
    [] name = "schwab" -> "Schwab"
    [] name = "test" -> "Test"
    [] OTHER -> name

UnavailableMessage(b, operation) ==
  CASE b.status = NOT_CONFIGURED ->
         IF Falsy(b.setup_instructions)
         THEN <<Title(b.name), " is not configured.">>
         ELSE <<Title(b.name), " is not configured.", "Setup: ", b.setup_instructions>>
    [] b.status = AUTH_FAILED ->
         <<Title(b.name), " authentication failed: ", b.error_message>>
    [] b.status = TOKEN_EXPIRED -> <<Title(b.name), " session expired.">>
    [] b.status = MFA_REQUIRED -> <<Title(b.name), " requires MFA verification.">>
    [] b.status = AUTHENTICATING -> <<Title(b.name), " authentication in progress.">>
    [] OTHER -> <<Title(b.name), " is not available for ", operation>>

create_unavailable_response(b, operation) ==
  [key |-> "result",
   error |-> UnavailableMessage(b, operation),
   status |-> "broker_unavailable",
   broker |-> b.name,
   auth_status |-> StatusValue(b.status),
   requires_setup |-> b.requires_setup]

NoPayload ==
  [key |-> Absent, error |-> <<>>, status |-> Absent, broker |-> Absent,
   auth_status |-> Absent, requires_setup |-> FALSE]

\* -------------------------------------------------------------- adapters
RobinhoodBroker(creds) ==
  LET b == BaseBroker("robinhood", "robinhood") IN
  CASE creds = "both" -> [b EXCEPT !.status = NOT_AUTHENTICATED]
    [] creds = "one" ->
         [b EXCEPT !.status = NOT_CONFIGURED,
                   !.error_message = "Both username and password required for Robinhood"]
    [] OTHER ->
         [b EXCEPT !.status = NOT_CONFIGURED,
                   !.setup_instructions = "Set ROBINHOOD_USERNAME and ROBINHOOD_PASSWORD"]

SchwabBroker(creds) ==
  LET b == BaseBroker("schwab", "schwab") IN
  IF creds # "both"
  THEN [b EXCEPT !.status = NOT_CONFIGURED,
                 !.setup_instructions = "Set SCHWAB_API_KEY and SCHWAB_APP_SECRET",
                 !.requires_setup = TRUE]
  ELSE [b EXCEPT !.status = NOT_AUTHENTICATED]

\* The test suites' stand-in for any other BaseBroker subclass: configured
\* or not, or put into MFA_REQUIRED after construction.
MockBroker(name, init) ==
  LET b == BaseBroker("mock", name) IN
  CASE init = "configured" -> [b EXCEPT !.status = NOT_AUTHENTICATED]
    [] init = "mfa" -> [b EXCEPT !.status = MFA_REQUIRED]
    [] OTHER -> [b EXCEPT !.status = NOT_CONFIGURED]

\* --------------------------------------------------------- last operation
\* attempt_broker_logins' return value, and what it logged as overall status
NoSummary == [successful |-> 0, total |-> 0, failed |-> <<>>, log |-> <<>>]

\* broker_status' counts and list of available names
NoReport == [available_brokers |-> <<>>, total_configured |-> 0, total_authenticated |-> 0]

NoLast ==
  [op |-> "init", inst |-> NoInst, ret |-> NoneVal, report |-> NoReport,
   payload |-> NoPayload, fail_fast |-> FALSE, results |-> <<>>,
   calls |-> <<>>, require_at_least_one |-> FALSE, summary |-> NoSummary,
   serving |-> FALSE]

IdleRun ==
  [pc |-> "idle", op |-> NoneVal, fail_fast |-> FALSE, pos |-> 0, size |-> 0,
   name |-> NoneVal, cur |-> NoInst, entered |-> FALSE,
   results |-> <<>>, calls |-> <<>>,
   caller |-> NoneVal, require_at_least_one |-> FALSE]

Quiescent == run.pc = "idle"

\* A synchronous read can run between the steps of an asynchronous call
\* only where that call is suspended: inside an adapter that awaits.
ReadPoint ==
  \/ run.pc = "idle"
  \/ run.pc = "await" /\ objs[run.cur].kind # "schwab"

\* no second call in progress
IdlePeer ==
  [pc |-> "idle", op |-> NoneVal, name |-> NoneVal, cur |-> NoInst, entered |-> FALSE]

\* a task that has not called get_broker_registry()
IdleCaller == [pc |-> "idle", ret |-> NoRef]

\* ------------------------------------------------------------------ Init
Init ==
  /\ objs = [i \in Inst |-> NoObj]
  /\ brokers = <<>>
  /\ active_broker = NoneVal
  /\ authentication_attempts = <<>>
  /\ run = IdleRun
  /\ auth_calls = 0
  /\ last = NoLast
  /\ peer = IdlePeer
  /\ registry_ref = NoRef
  /\ registry_lock = NoTask
  /\ instances = <<>>
  /\ callers = [t \in Tasks |-> IdleCaller]

\* --------------------------------------------------------------- actions
\* Adapter construction; objects are numbered in the order they are made,
\* and one is made once the names of the earlier ones are registered.
Construct(i, b) ==
  /\ Quiescent
  /\ objs[i] = NoObj
  /\ \A j \in Inst : j < i => objs[j] # NoObj /\ objs[j].name \in Keys(brokers)
  /\ objs' = [objs EXCEPT ![i] = b]
  /\ last' = [NoLast EXCEPT !.op = "construct", !.inst = i]
  /\ UNCHANGED <<brokers, active_broker, authentication_attempts, run, auth_calls,
               peer, singleton>>

\* a slip: every registration takes over the active broker
register_Activates(i) ==
  /\ Quiescent
  /\ objs[i] # NoObj
  /\ brokers' = DictSet(brokers, objs[i].name, i)
  /\ authentication_attempts' = DictSet(authentication_attempts, objs[i].name, 0)
  /\ active_broker' = objs[i].name
  /\ last' = [NoLast EXCEPT !.op = "register", !.inst = i]
  /\ UNCHANGED <<objs, run, auth_calls, peer, singleton>>

\* a slip: brokers kept in a list, a second registration appended
register_Appends(i) ==
  /\ Quiescent
  /\ objs[i] # NoObj
  /\ brokers' = Append(brokers, [name |-> objs[i].name, val |-> i])
  /\ authentication_attempts' = DictSet(authentication_attempts, objs[i].name, 0)
  /\ active_broker' = IF active_broker = NoneVal THEN objs[i].name ELSE active_broker
  /\ last' = [NoLast EXCEPT !.op = "register", !.inst = i]
  /\ UNCHANGED <<objs, run, auth_calls, peer, singleton>>

\* BrokerRegistry.register
register(i) ==
  /\ Quiescent
  /\ objs[i] # NoObj
  /\ brokers' = DictSet(brokers, objs[i].name, i)
  /\ authentication_attempts' = DictSet(authentication_attempts, objs[i].name, 0)
  /\ active_broker' = IF active_broker = NoneVal THEN objs[i].name ELSE active_broker
  /\ last' = [NoLast EXCEPT !.op = "register", !.inst = i]
  /\ UNCHANGED <<objs, run, auth_calls, peer, singleton>>

\* a slip: None resolves to the first registered broker, not the active one
get_broker_First(name) ==
  LET broker_name == IF Falsy(name)
                     THEN (IF brokers = <<>> THEN NoneVal ELSE brokers[1].name)
                     ELSE name
  IN IF Falsy(broker_name) THEN NoInst ELSE DictGet(brokers, broker_name, NoInst)

\* BrokerRegistry.get_broker: the object, or NoInst for None
get_broker(name) ==
  LET broker_name == IF Falsy(name) THEN active_broker ELSE name IN
  IF Falsy(broker_name) THEN NoInst ELSE DictGet(brokers, broker_name, NoInst)

\* a slip: the mapping indexed directly, so a missing name raises KeyError
GetBroker_KeyError(name) ==
  /\ ReadPoint
  /\ LET broker_name == IF Falsy(name) THEN active_broker ELSE name IN
     last' = IF broker_name \in Keys(brokers)
             THEN [NoLast EXCEPT !.op = "get_broker", !.ret = "broker",
                                 !.inst = DictGet(brokers, broker_name, NoInst)]
             ELSE [NoLast EXCEPT !.op = "get_broker", !.ret = "raise"]
  /\ UNCHANGED <<objs, brokers, active_broker, authentication_attempts, run, auth_calls,
               peer, singleton>>

\* a call of BrokerRegistry.get_broker
GetBroker(name) ==
  /\ ReadPoint
  /\ LET broker == get_broker(name) IN
     last' = [NoLast EXCEPT !.op = "get_broker", !.inst = broker,
                            !.ret = IF broker = NoInst THEN "None" ELSE "broker"]
  /\ UNCHANGED <<objs, brokers, active_broker, authentication_attempts, run, auth_calls,
               peer, singleton>>

\* BrokerRegistry.list_brokers
list_brokers == KeyList(brokers)

get_available_brokers ==
  KeyList(SelectSeq(brokers, LAMBDA e : is_available(objs[e.val])))

\* a slip: an unknown name reported with the generic "error" status
get_broker_or_error_Generic(name, operation) ==
  LET broker == get_broker(name) IN
  IF broker = NoInst
  THEN <<NoInst,
         [NoPayload EXCEPT
            !.key = "result",
            !.error = <<"Broker not found: ", IF Falsy(name) THEN "active" ELSE name>>,
            !.status = "error"]>>
  ELSE IF ~is_available(objs[broker])
       THEN <<NoInst, create_unavailable_response(objs[broker], operation)>>
       ELSE <<broker, NoPayload>>

\* BrokerRegistry.get_broker_or_error: <<broker, error>>
get_broker_or_error(name, operation) ==
  LET broker == get_broker(name) IN
  IF broker = NoInst
  THEN <<NoInst,
         [NoPayload EXCEPT
            !.key = "result",
            !.error = <<"Broker not found: ", IF Falsy(name) THEN "active" ELSE name>>,
            !.status = "broker_not_found"]>>
  ELSE IF ~is_available(objs[broker])
       THEN <<NoInst, create_unavailable_response(objs[broker], operation)>>
       ELSE <<broker, NoPayload>>

GetBrokerOrError(name) ==
  /\ ReadPoint
  /\ LET r == get_broker_or_error(name, "operation") IN
     last' = [NoLast EXCEPT !.op = "get_broker_or_error",
                            !.inst = r[1], !.payload = r[2],
                            !.ret = IF r[2] = NoPayload THEN "broker" ELSE "error"]
  /\ UNCHANGED <<objs, brokers, active_broker, authentication_attempts, run, auth_calls,
               peer, singleton>>

\* a slip: the membership test left out
set_active_broker_Unchecked(name) ==
  /\ Quiescent
  /\ active_broker' = name
  /\ last' = [NoLast EXCEPT !.op = "set_active_broker", !.ret = "True"]
  /\ UNCHANGED <<objs, brokers, authentication_attempts, run, auth_calls, peer, singleton>>

\* BrokerRegistry.set_active_broker
set_active_broker(name) ==
  /\ Quiescent
  /\ IF name \notin Keys(brokers)
     THEN /\ last' = [NoLast EXCEPT !.op = "set_active_broker", !.ret = "False"]
          /\ UNCHANGED active_broker
     ELSE /\ active_broker' = name
          /\ last' = [NoLast EXCEPT !.op = "set_active_broker", !.ret = "True"]
  /\ UNCHANGED <<objs, brokers, authentication_attempts, run, auth_calls, peer, singleton>>

\* ---------------------------------------------------- adapter operations
\* What the world outside an adapter can answer to one authenticate() call.
\* robinhood: SessionManager.ensure_authenticated returns True / False / raises.
\* schwab: the schwab import fails; else the stored token loads, or the
\*   process has no terminal, or auth.easy_client returns / raises.
\* mock: any other subclass returns True / False, or raises.
AuthOutcomes(kind, entered) ==
  CASE kind = "robinhood" -> {"ok", "rejected", "error"}
    [] kind = "schwab" ->
         IF entered THEN {"token_ok", "not_tty", "easy_ok", "easy_error"}
         ELSE {"import_error"}
    [] OTHER -> {"ok", "rejected", "error"}

\* authenticate() up to its first suspension point
AuthBegin(b, entered) ==
  IF entered
  THEN [b EXCEPT !.last_auth_attempt = Now, !.status = AUTHENTICATING]
  ELSE b

\* a slip: the error message of an earlier failure left in place
Authenticated_KeepsError(b) ==
  [b EXCEPT !.status = AUTHENTICATED, !.last_successful_auth = Now]

Authenticated(b) ==
  [b EXCEPT !.status = AUTHENTICATED, !.last_successful_auth = Now,
            !.error_message = NoneVal]

Failed(b, msg) == [b EXCEPT !.status = AUTH_FAILED, !.error_message = msg]

\* a slip: the except clause left out, the session's exception gets through
RobinhoodAuthenticate_Raises(b, outcome, msg) ==
  CASE outcome = "ok" -> [obj |-> Authenticated(b), ret |-> "True"]
    [] outcome = "rejected" ->
         [obj |-> Failed(b, "Authentication failed - check username/password"),
          ret |-> "False"]
    [] OTHER -> [obj |-> b, ret |-> "raise"]

\* RobinhoodBroker.authenticate after the await: [obj, ret]
RobinhoodAuthenticate(b, outcome, msg) ==
  CASE outcome = "ok" -> [obj |-> Authenticated(b), ret |-> "True"]
    [] outcome = "rejected" ->
         [obj |-> Failed(b, "Authentication failed - check username/password"),
          ret |-> "False"]
    [] OTHER -> [obj |-> Failed(b, msg), ret |-> "False"]

\* a slip: the token-file login returns True without recording the status
SchwabAuthenticate_TokenNoStatus(b, outcome, msg) ==
  CASE outcome = "import_error" ->
         [obj |-> Failed(b, "schwab-py library not installed"), ret |-> "False"]
    [] outcome = "token_ok" -> [obj |-> [b EXCEPT !.client = "client"], ret |-> "True"]
    [] outcome = "not_tty" ->
         [obj |-> Failed(b, "Interactive authentication required but not available"),
          ret |-> "False"]
    [] outcome = "easy_ok" ->
         [obj |-> Authenticated([b EXCEPT !.client = "client"]), ret |-> "True"]
    [] OTHER -> [obj |-> Failed(b, msg), ret |-> "False"]

\* SchwabBroker.authenticate after the import
SchwabAuthenticate(b, outcome, msg) ==
  CASE outcome = "import_error" ->
         [obj |-> Failed(b, "schwab-py library not installed"), ret |-> "False"]
    [] outcome = "token_ok" ->
         [obj |-> Authenticated([b EXCEPT !.client = "client"]), ret |-> "True"]
    [] outcome = "not_tty" ->
         [obj |-> Failed(b, "Interactive authentication required but not available"),
          ret |-> "False"]
    [] outcome = "easy_ok" ->
         [obj |-> Authenticated([b EXCEPT !.client = "client"]), ret |-> "True"]
    [] OTHER -> [obj |-> Failed(b, msg), ret |-> "False"]

\* Any other subclass: the test suites' MockBroker, or one that breaks the
\* contract and raises out of authenticate()
MockAuthenticate(b, outcome, msg) ==
  CASE outcome = "ok" -> [obj |-> Authenticated(b), ret |-> "True"]
    [] outcome = "rejected" ->
         [obj |-> Failed(b, "Mock authentication failed"), ret |-> "False"]
    [] OTHER -> [obj |-> b, ret |-> "raise"]

authenticate(b, outcome, msg) ==
  CASE b.kind = "robinhood" -> RobinhoodAuthenticate(b, outcome, msg)
    [] b.kind = "schwab" -> SchwabAuthenticate(b, outcome, msg)
    [] OTHER -> MockAuthenticate(b, outcome, msg)

\* is_authenticated(): [obj, ret]; valid is SessionManager.is_session_valid()
is_authenticated(b, valid) ==
  CASE b.kind = "robinhood" ->
         [obj |-> IF ~valid /\ b.status = AUTHENTICATED
                  THEN [b EXCEPT !.status = TOKEN_EXPIRED,
                                 !.error_message = "Session expired"]
                  ELSE b,
          ret |-> IF valid THEN "True" ELSE "False"]
    [] b.kind = "schwab" ->
         [obj |-> b,
          ret |-> IF b.client = NoneVal THEN "False"
                  ELSE IF b.status = AUTHENTICATED THEN "True" ELSE "False"]
    [] OTHER ->
         [obj |-> b, ret |-> IF b.status = AUTHENTICATED THEN "True" ELSE "False"]

\* logout(): [obj, ret]; teardown_ok is whether the session teardown worked
logout(b, teardown_ok) ==
  CASE b.kind = "robinhood" ->
         [obj |-> IF teardown_ok
                  THEN [b EXCEPT !.status = NOT_AUTHENTICATED, !.error_message = NoneVal]
                  ELSE b,
          ret |-> "None"]
    [] b.kind = "schwab" ->
         [obj |-> [b EXCEPT !.client = NoneVal, !.status = NOT_AUTHENTICATED,
                            !.error_message = NoneVal],
          ret |-> "None"]
    [] OTHER ->
         IF teardown_ok
         THEN [obj |-> [b EXCEPT !.status = NOT_AUTHENTICATED, !.error_message = NoneVal],
               ret |-> "None"]
         ELSE [obj |-> b, ret |-> "raise"]

\* a call of BaseBroker.is_available
IsAvailable(i) ==
  /\ ReadPoint
  /\ objs[i] # NoObj
  /\ last' = [NoLast EXCEPT !.op = "is_available", !.inst = i,
                            !.ret = IF is_available(objs[i]) THEN "True" ELSE "False"]
  /\ UNCHANGED <<objs, brokers, active_broker, authentication_attempts, run, auth_calls,
               peer, singleton>>

\* Direct call of an adapter's is_authenticated()
IsAuthenticated(i, valid) ==
  /\ Quiescent
  /\ objs[i] # NoObj
  /\ LET r == is_authenticated(objs[i], valid) IN
     /\ objs' = [objs EXCEPT ![i] = r.obj]
     /\ last' = [NoLast EXCEPT !.op = "is_authenticated", !.inst = i, !.ret = r.ret]
  /\ UNCHANGED <<brokers, active_broker, authentication_attempts, run, auth_calls,
               peer, singleton>>

\* Whether the session teardown inside logout() can work / fail:
\* SessionManager.logout() may raise; SchwabBroker.logout has no teardown.
TeardownOutcomes(kind) == IF kind = "schwab" THEN {TRUE} ELSE BOOLEAN

\* Direct call of an adapter's authenticate(), up to its first suspension
Authenticate(i) ==
  /\ Quiescent
  /\ objs[i] # NoObj
  /\ auth_calls < MaxCalls
  /\ auth_calls' = auth_calls + 1
  /\ \E entered \in (IF objs[i].kind = "schwab" THEN BOOLEAN ELSE {TRUE}) :
       /\ objs' = [objs EXCEPT ![i] = AuthBegin(@, entered)]
       /\ run' = [IdleRun EXCEPT !.pc = "await", !.op = "authenticate", !.cur = i,
                                 !.name = objs[i].name, !.entered = entered]
  /\ last' = [NoLast EXCEPT !.op = "authenticate", !.inst = i, !.ret = "pending"]
  /\ UNCHANGED <<brokers, active_broker, authentication_attempts, peer, singleton>>

\* ... and from there to its return
AuthenticateResume ==
  /\ run.pc = "await"
  /\ run.op = "authenticate"
  /\ \E outcome \in AuthOutcomes(objs[run.cur].kind, run.entered), msg \in ExcMessages :
       LET r == authenticate(objs[run.cur], outcome, msg) IN
       /\ objs' = [objs EXCEPT ![run.cur] = r.obj]
       /\ last' = [NoLast EXCEPT !.op = "authenticate", !.inst = run.cur, !.ret = r.ret]
  /\ run' = IdleRun
  /\ UNCHANGED <<brokers, active_broker, authentication_attempts, auth_calls, peer, singleton>>

\* a slip: one session shared by all adapters, so that one logout ends all
Logout_Everyone(i) ==
  /\ Quiescent
  /\ objs[i] # NoObj
  /\ \E ok \in TeardownOutcomes(objs[i].kind) :
       /\ objs' = [j \in Inst |->
                     IF objs[j] = NoObj THEN NoObj ELSE logout(objs[j], ok).obj]
       /\ last' = [NoLast EXCEPT !.op = "logout", !.inst = i,
                                 !.ret = logout(objs[i], ok).ret]
  /\ UNCHANGED <<brokers, active_broker, authentication_attempts, run, auth_calls,
               peer, singleton>>

\* Direct call of an adapter's logout()
Logout(i) ==
  /\ Quiescent
  /\ objs[i] # NoObj
  /\ \E ok \in TeardownOutcomes(objs[i].kind) :
       LET r == logout(objs[i], ok) IN
       /\ objs' = [objs EXCEPT ![i] = r.obj]
       /\ last' = [NoLast EXCEPT !.op = "logout", !.inst = i, !.ret = r.ret]
  /\ UNCHANGED <<brokers, active_broker, authentication_attempts, run, auth_calls,
               peer, singleton>>

\* ------------------------------------------------------ financial operations
FinancialOperations ==
  {"get_account_info", "get_portfolio", "get_positions", "get_stock_quote",
   "get_stock_price", "order_buy_market", "order_sell_market"}

\* the operations an adapter passes on to the brokerage backend once it
\* is available; the others return the "not yet implemented" placeholder
Delegated(kind) ==
  IF kind = "robinhood" THEN FinancialOperations \ {"get_stock_quote"} ELSE {}

\* what the Robinhood tool function behind an operation answers
BackendStatuses(operation) ==
  IF operation = "get_stock_price" THEN {"not_implemented", "error"}
  ELSE {"success", "error"}

\* the operation label an adapter passes to create_unavailable_response
OperationLabel(operation) ==
  CASE operation = "get_stock_quote" -> "get stock quote for SYM"
    [] operation = "get_stock_price" -> "get stock price for SYM"
    [] operation = "order_buy_market" -> "place buy order for SYM"
    [] operation = "order_sell_market" -> "place sell order for SYM"
    [] OTHER -> operation

\* the "not yet implemented" placeholder of an adapter
Placeholder(kind) ==
  [NoPayload EXCEPT
     !.key = "result",
     !.error = IF kind = "schwab"
               THEN <<"Not yet implemented in Schwab broker adapter">>
               ELSE <<"Not yet implemented in broker adapter">>,
     !.status = "not_implemented"]

\* a slip: the availability check left out
financial_operation_Unguarded(b, operation, backend) ==
  IF operation \in Delegated(b.kind)
  THEN [payload |-> [NoPayload EXCEPT !.key = "result", !.status = backend],
        ret |-> "backend"]
  ELSE [payload |-> Placeholder(b.kind), ret |-> "no_backend"]

\* one financial operation of an adapter: [payload, ret], ret telling
\* whether the backend was called
financial_operation(b, operation, backend) ==
  IF ~is_available(b)
  THEN [payload |-> create_unavailable_response(b, OperationLabel(operation)),
        ret |-> "no_backend"]
  ELSE IF operation \in Delegated(b.kind)
  THEN [payload |-> [NoPayload EXCEPT !.key = "result", !.status = backend],
        ret |-> "backend"]
  ELSE [payload |-> Placeholder(b.kind), ret |-> "no_backend"]

FinancialOperation(i, operation) ==
  /\ ReadPoint
  /\ objs[i] # NoObj
  /\ \E backend \in BackendStatuses(operation) :
       LET r == financial_operation(objs[i], operation, backend) IN
       last' = [NoLast EXCEPT !.op = operation, !.inst = i,
                              !.payload = r.payload, !.ret = r.ret]
  /\ UNCHANGED <<objs, brokers, active_broker, authentication_attempts, run, auth_calls,
               peer, singleton>>

\* ------------------------------------------------------- authenticate_all
\* a slip: the break left out
StopOnFailure_Never(success, fail_fast) == FALSE

\* the loop's `break` condition after a failed or raising authenticate()
StopOnFailure(success, fail_fast) == ~success /\ fail_fast

\* a slip: a skipped broker gets no entry
RecordSkipped_Omitted(results, name) == results

\* the skip branch: an unconfigured broker is recorded False
RecordSkipped(results, name) == DictSet(results, name, FALSE)

\* a slip: the exception is logged only
HandleAuthException_Logged(b, msg) == b

\* the except branch: the registry marks the broker itself
HandleAuthException(b, msg) == [b EXCEPT !.status = AUTH_FAILED, !.error_message = msg]

Pending(r) == [NoLast EXCEPT !.op = r.op, !.ret = "pending", !.fail_fast = r.fail_fast]

Finished(r, ret) ==
  [NoLast EXCEPT !.op = r.op, !.ret = ret, !.fail_fast = r.fail_fast,
                 !.results = r.results, !.calls = r.calls]

\* an exception leaving authenticate_all also leaves the caller awaiting it
Raised(r) ==
  [Finished(r, "raise") EXCEPT !.op = IF r.caller = NoneVal THEN r.op ELSE r.caller]

\* where control is once authenticate_all has returned: back in
\* attempt_broker_logins at its `results = await ...`, or nowhere
AfterAuthAll(r) ==
  IF r.caller = NoneVal THEN IdleRun
  ELSE [IdleRun EXCEPT !.pc = "summary", !.op = r.caller, !.caller = r.caller,
                       !.require_at_least_one = r.require_at_least_one,
                       !.results = r.results, !.calls = r.calls]

NewCall(i, name) == [inst |-> i, name |-> name, ret |-> "pending", msg |-> NoneVal]

\* a slip: every broker's authenticate() started at once, as with gather
AuthenticateAll_Gather(fail_fast) ==
  /\ Quiescent
  /\ auth_calls + Len(brokers) <= MaxCalls
  /\ IF brokers = <<>>
     THEN /\ run' = [IdleRun EXCEPT !.pc = "loop", !.op = "authenticate_all",
                                    !.fail_fast = fail_fast, !.pos = 1, !.size = 0]
          /\ UNCHANGED <<objs, auth_calls>>
     ELSE /\ run' = [IdleRun EXCEPT
                       !.pc = "await", !.op = "authenticate_all",
                       !.fail_fast = fail_fast, !.pos = 1, !.size = Len(brokers),
                       !.name = brokers[1].name, !.cur = brokers[1].val,
                       !.entered = TRUE,
                       !.calls = [k \in 1..Len(brokers) |->
                                    NewCall(brokers[k].val, brokers[k].name)]]
          /\ objs' = [i \in Inst |->
                        IF \E k \in 1..Len(brokers) : brokers[k].val = i
                        THEN AuthBegin(objs[i], TRUE) ELSE objs[i]]
          /\ auth_calls' = auth_calls + Len(brokers)
  /\ last' = Pending(run')
  /\ UNCHANGED <<brokers, active_broker, authentication_attempts, peer, singleton>>

\* the call itself: results = {} and the iterator over self._brokers.items()
AuthenticateAll(fail_fast) ==
  /\ Quiescent
  /\ auth_calls + Len(brokers) <= MaxCalls
  /\ run' = [IdleRun EXCEPT !.pc = "loop", !.op = "authenticate_all",
                            !.fail_fast = fail_fast, !.pos = 1,
                            !.size = Len(brokers)]
  /\ last' = Pending(run')
  /\ UNCHANGED <<objs, brokers, active_broker, authentication_attempts, auth_calls,
               peer, singleton>>

\* one turn of the loop, up to the await of broker.authenticate(); or the
\* end of the loop, the summary and `return results`
AuthAllLoop ==
  /\ run.pc = "loop"
  /\ run.op = "authenticate_all"
  /\ IF Len(brokers) # run.size
     THEN \* RuntimeError: dictionary changed size during iteration
          /\ run' = IdleRun
          /\ last' = Raised(run)
          /\ UNCHANGED <<objs, authentication_attempts, auth_calls>>
     ELSE IF run.pos > Len(brokers)
     THEN /\ run' = AfterAuthAll(run)
          /\ last' = Finished(run, "returned")
          /\ UNCHANGED <<objs, authentication_attempts, auth_calls>>
     ELSE LET name == brokers[run.pos].name
              broker == brokers[run.pos].val
          IN IF ~is_configured(objs[broker])
             THEN /\ run' = [run EXCEPT !.results = RecordSkipped(@, name), !.pos = @ + 1]
                  /\ last' = Pending(run)
                  /\ UNCHANGED <<objs, authentication_attempts, auth_calls>>
             ELSE IF name \notin Keys(authentication_attempts)
             THEN \* KeyError out of `self._authentication_attempts[name] += 1`
                  /\ run' = IdleRun
                  /\ last' = Raised(run)
                  /\ UNCHANGED <<objs, authentication_attempts, auth_calls>>
             ELSE /\ authentication_attempts' =
                       DictSet(authentication_attempts, name,
                               DictGet(authentication_attempts, name, 0) + 1)
                  /\ auth_calls' = auth_calls + 1
                  /\ \E entered \in (IF objs[broker].kind = "schwab" THEN BOOLEAN ELSE {TRUE}) :
                       /\ objs' = [objs EXCEPT ![broker] = AuthBegin(@, entered)]
                       /\ run' = [run EXCEPT !.pc = "await", !.name = name, !.cur = broker,
                                             !.entered = entered,
                                             !.calls = Append(@, NewCall(broker, name))]
                  /\ last' = Pending(run)
  /\ UNCHANGED <<brokers, active_broker, peer, singleton>>

\* broker.authenticate() completes; the try/except around it
AuthAllResume ==
  /\ run.pc = "await"
  /\ run.op = "authenticate_all"
  /\ \E outcome \in AuthOutcomes(objs[run.cur].kind, run.entered), msg \in ExcMessages :
       LET r == authenticate(objs[run.cur], outcome, msg)
           success == r.ret = "True"
           obj2 == IF r.ret = "raise" THEN HandleAuthException(r.obj, msg) ELSE r.obj
           run2 == [run EXCEPT !.results = DictSet(@, run.name, success),
                               !.calls[Len(run.calls)].ret = r.ret,
                               !.calls[Len(run.calls)].msg = msg,
                               !.pc = "loop", !.pos = @ + 1,
                               !.cur = NoInst, !.name = NoneVal, !.entered = FALSE]
       IN /\ objs' = [objs EXCEPT ![run.cur] = obj2]
          /\ IF StopOnFailure(success, run.fail_fast)
             THEN /\ run' = AfterAuthAll(run2)
                  /\ last' = Finished(run2, "returned")
             ELSE /\ run' = run2
                  /\ last' = Pending(run)
  /\ UNCHANGED <<brokers, active_broker, authentication_attempts, auth_calls, peer, singleton>>

\* --------------------------------------------------- ensure_authenticated
EnsureAuthenticated(broker_name) ==
  /\ Quiescent
  /\ LET broker == get_broker(broker_name)
         r0 == [IdleRun EXCEPT !.op = "ensure_authenticated", !.name = broker_name]
     IN IF broker = NoInst
        THEN /\ last' = Finished(r0, "False")
             /\ UNCHANGED <<objs, run, auth_calls>>
        ELSE IF is_available(objs[broker])
        THEN /\ last' = Finished(r0, "True")
             /\ UNCHANGED <<objs, run, auth_calls>>
        ELSE IF ~is_configured(objs[broker])
        THEN /\ last' = Finished(r0, "False")
             /\ UNCHANGED <<objs, run, auth_calls>>
        ELSE /\ auth_calls < MaxCalls
             /\ auth_calls' = auth_calls + 1
             /\ \E entered \in (IF objs[broker].kind = "schwab" THEN BOOLEAN ELSE {TRUE}) :
                  /\ objs' = [objs EXCEPT ![broker] = AuthBegin(@, entered)]
                  /\ run' = [r0 EXCEPT !.pc = "await", !.cur = broker, !.entered = entered,
                                       !.calls = <<NewCall(broker, broker_name)>>]
             /\ last' = Pending(r0)
  /\ UNCHANGED <<brokers, active_broker, authentication_attempts, peer, singleton>>

\* a slip: the try/except around the call left out
EnsureResume_Propagates ==
  /\ run.pc = "await"
  /\ run.op = "ensure_authenticated"
  /\ \E outcome \in AuthOutcomes(objs[run.cur].kind, run.entered), msg \in ExcMessages :
       LET r == authenticate(objs[run.cur], outcome, msg)
           run2 == [run EXCEPT !.calls[1].ret = r.ret, !.calls[1].msg = msg]
       IN /\ objs' = [objs EXCEPT ![run.cur] = r.obj]
          /\ last' = Finished(run2, r.ret)
  /\ run' = IdleRun
  /\ UNCHANGED <<brokers, active_broker, authentication_attempts, auth_calls, peer, singleton>>

\* broker.authenticate() completes; the try/except of ensure_authenticated
EnsureResume ==
  /\ run.pc = "await"
  /\ run.op = "ensure_authenticated"
  /\ \E outcome \in AuthOutcomes(objs[run.cur].kind, run.entered), msg \in ExcMessages :
       LET r == authenticate(objs[run.cur], outcome, msg)
           run2 == [run EXCEPT !.calls[1].ret = r.ret, !.calls[1].msg = msg]
       IN /\ objs' = [objs EXCEPT ![run.cur] = r.obj]
          /\ last' = Finished(run2, IF r.ret = "True" THEN "True" ELSE "False")
  /\ run' = IdleRun
  /\ UNCHANGED <<brokers, active_broker, authentication_attempts, auth_calls, peer, singleton>>

\* ------------------------------------------------------- concurrent tasks
\* Another task runs where the running call is suspended: inside the
\* authenticate() of an adapter that awaits. (SchwabBroker.authenticate has
\* no await and runs to its end with no other task in between.)
Suspended == run.pc = "await" /\ objs[run.cur].kind # "schwab"

\* register() by another task while the running call is suspended
RegisterWhileSuspended(i) ==
  /\ Suspended
  /\ objs[i] # NoObj
  /\ brokers' = DictSet(brokers, objs[i].name, i)
  /\ authentication_attempts' = DictSet(authentication_attempts, objs[i].name, 0)
  /\ active_broker' = IF active_broker = NoneVal THEN objs[i].name ELSE active_broker
  /\ last' = [NoLast EXCEPT !.op = "register", !.inst = i]
  /\ UNCHANGED <<objs, run, auth_calls, peer, singleton>>

\* a slip: a call for a broker whose authenticate() is in progress gives up
PeerEnsureAuthenticated_Deduplicated(broker_name) ==
  /\ Suspended
  /\ peer.pc = "idle"
  /\ LET broker == get_broker(broker_name) IN
     IF broker = NoInst \/ broker = run.cur
     THEN /\ last' = [NoLast EXCEPT !.op = "ensure_authenticated", !.ret = "False"]
          /\ UNCHANGED <<objs, peer, auth_calls>>
     ELSE IF is_available(objs[broker])
     THEN /\ last' = [NoLast EXCEPT !.op = "ensure_authenticated", !.ret = "True"]
          /\ UNCHANGED <<objs, peer, auth_calls>>
     ELSE IF ~is_configured(objs[broker])
     THEN /\ last' = [NoLast EXCEPT !.op = "ensure_authenticated", !.ret = "False"]
          /\ UNCHANGED <<objs, peer, auth_calls>>
     ELSE /\ objs[broker].kind # "schwab"
          /\ auth_calls < MaxCalls
          /\ auth_calls' = auth_calls + 1
          /\ objs' = [objs EXCEPT ![broker] = AuthBegin(@, TRUE)]
          /\ peer' = [IdlePeer EXCEPT !.pc = "await", !.op = "ensure_authenticated",
                                      !.name = broker_name, !.cur = broker,
                                      !.entered = TRUE]
          /\ last' = [NoLast EXCEPT !.op = "ensure_authenticated", !.ret = "pending"]
  /\ UNCHANGED <<brokers, active_broker, authentication_attempts, run, singleton>>

\* ensure_authenticated called by another task while the running call is
\* suspended, up to its own await of broker.authenticate()
PeerEnsureAuthenticated(broker_name) ==
  /\ Suspended
  /\ peer.pc = "idle"
  /\ LET broker == get_broker(broker_name) IN
     IF broker = NoInst
     THEN /\ last' = [NoLast EXCEPT !.op = "ensure_authenticated", !.ret = "False"]
          /\ UNCHANGED <<objs, peer, auth_calls>>
     ELSE IF is_available(objs[broker])
     THEN /\ last' = [NoLast EXCEPT !.op = "ensure_authenticated", !.ret = "True"]
          /\ UNCHANGED <<objs, peer, auth_calls>>
     ELSE IF ~is_configured(objs[broker])
     THEN /\ last' = [NoLast EXCEPT !.op = "ensure_authenticated", !.ret = "False"]
          /\ UNCHANGED <<objs, peer, auth_calls>>
     ELSE /\ objs[broker].kind # "schwab"
          /\ auth_calls < MaxCalls
          /\ auth_calls' = auth_calls + 1
          /\ objs' = [objs EXCEPT ![broker] = AuthBegin(@, TRUE)]
          /\ peer' = [IdlePeer EXCEPT !.pc = "await", !.op = "ensure_authenticated",
                                      !.name = broker_name, !.cur = broker,
                                      !.entered = TRUE]
          /\ last' = [NoLast EXCEPT !.op = "ensure_authenticated", !.ret = "pending"]
  /\ UNCHANGED <<brokers, active_broker, authentication_attempts, run, singleton>>

\* the other task's broker.authenticate() completes; its try/except
PeerResume ==
  /\ peer.pc = "await"
  /\ peer.op = "ensure_authenticated"
  /\ \E outcome \in AuthOutcomes(objs[peer.cur].kind, peer.entered), msg \in ExcMessages :
       LET r == authenticate(objs[peer.cur], outcome, msg) IN
       /\ objs' = [objs EXCEPT ![peer.cur] = r.obj]
       /\ last' = [NoLast EXCEPT !.op = "ensure_authenticated", !.inst = peer.cur,
                                 !.ret = IF r.ret = "True" THEN "True" ELSE "False"]
  /\ peer' = IdlePeer
  /\ UNCHANGED <<brokers, active_broker, authentication_attempts, run, auth_calls,
                 singleton>>

\* ------------------------------------------------------------- logout_all
\* asyncio.gather(..., return_exceptions=True) over every registered
\* broker's logout(); each logout touches its own broker only.
\* one logout() call as logout_all sees it
LogoutCall(k, ok) ==
  [inst |-> brokers[k].val, name |-> brokers[k].name,
   ret |-> logout(objs[brokers[k].val], ok).ret,
   msg |-> IF ok THEN NoneVal ELSE "teardown failed"]

\* a slip: the logouts awaited one after the other, unguarded
LogoutAll_Sequential ==
  /\ Quiescent
  /\ brokers # <<>>
  /\ \E ok \in [Keys(brokers) -> BOOLEAN] :
       /\ \A k \in 1..Len(brokers) :
            ok[brokers[k].name] \in TeardownOutcomes(objs[brokers[k].val].kind)
       /\ LET calls == [k \in 1..Len(brokers) |-> LogoutCall(k, ok[brokers[k].name])]
              raising == {k \in 1..Len(brokers) : calls[k].ret = "raise"}
              stop == IF raising = {} THEN Len(brokers)
                      ELSE CHOOSE k \in raising : \A j \in raising : k <= j
          IN /\ objs' = [i \in Inst |->
                          IF \E k \in 1..stop : brokers[k].val = i
                          THEN logout(objs[i], ok[objs[i].name]).obj
                          ELSE objs[i]]
             /\ last' = [NoLast EXCEPT !.op = "logout_all",
                                       !.ret = IF raising = {} THEN "None" ELSE "raise",
                                       !.calls = SubSeq(calls, 1, stop)]
  /\ UNCHANGED <<brokers, active_broker, authentication_attempts, run, auth_calls,
               peer, singleton>>

LogoutAll ==
  /\ Quiescent
  /\ brokers # <<>>
  /\ \E ok \in [Keys(brokers) -> BOOLEAN] :
       /\ \A k \in 1..Len(brokers) :
            ok[brokers[k].name] \in TeardownOutcomes(objs[brokers[k].val].kind)
       /\ objs' = [i \in Inst |->
                     IF \E k \in 1..Len(brokers) : brokers[k].val = i
                     THEN logout(objs[i], ok[objs[i].name]).obj
                     ELSE objs[i]]
       /\ last' = [NoLast EXCEPT
                     !.op = "logout_all", !.ret = "None",
                     !.calls = [k \in 1..Len(brokers) |->
                                  LogoutCall(k, ok[brokers[k].name])]]
  /\ UNCHANGED <<brokers, active_broker, authentication_attempts, run, auth_calls,
               peer, singleton>>

\* -------------------------------------------------- authentication coordinator
\* a slip: every registered name reported as failed
FailedNames_All(results) == KeyList(results)

\* [name for name, success in results.items() if not success]
FailedNames(results) == KeyList(SelectSeq(results, LAMBDA e : ~e.val))

\* a slip: with require_at_least_one and nothing authenticated the
\* attempt is reported as not made
Summarize_Strict(results, require_at_least_one) ==
  LET successful == Len(SelectSeq(results, LAMBDA e : e.val)) IN
  IF require_at_least_one /\ successful = 0
  THEN [NoSummary EXCEPT !.log = <<"No brokers authenticated">>]
  ELSE [successful |-> successful, total |-> Len(results),
        failed |-> FailedNames(results), log |-> <<>>]

\* attempt_broker_logins after authenticate_all: the counts, the failed
\* names and the overall status it logs
Summarize(results, require_at_least_one) ==
  LET successful == Len(SelectSeq(results, LAMBDA e : e.val))
      total == Len(results)
  IN [successful |-> successful,
      total |-> total,
      failed |-> FailedNames(results),
      log |-> IF successful = total /\ total > 0
              THEN <<"All broker(s) authenticated successfully">>
              ELSE IF successful > 0
              THEN <<"Partial success", "Unavailable">>
              ELSE IF total > 0
              THEN <<"No brokers authenticated", "Failed">> \o
                   (IF require_at_least_one
                    THEN <<"Server will start but all broker-specific tools will be unavailable">>
                    ELSE <<>>)
              ELSE <<"No authentication attempts made">>]

\* a slip: the empty registry is not checked for
AttemptBrokerLogins_NoCheck(require_at_least_one) ==
  /\ Quiescent
  /\ auth_calls + Len(brokers) <= MaxCalls
  /\ run' = [IdleRun EXCEPT !.pc = "loop", !.op = "authenticate_all",
                            !.fail_fast = FALSE, !.pos = 1, !.size = Len(brokers),
                            !.caller = "attempt_broker_logins",
                            !.require_at_least_one = require_at_least_one]
  /\ last' = Pending(run')
  /\ UNCHANGED <<objs, brokers, active_broker, authentication_attempts, auth_calls,
               peer, singleton>>

\* attempt_broker_logins up to `await registry.authenticate_all(fail_fast=False)`
AttemptBrokerLogins(require_at_least_one) ==
  /\ Quiescent
  /\ IF list_brokers = <<>>
     THEN /\ last' = [NoLast EXCEPT
                        !.op = "attempt_broker_logins", !.ret = "returned",
                        !.require_at_least_one = require_at_least_one,
                        !.summary = [NoSummary EXCEPT !.log = <<"No brokers registered">>]]
          /\ UNCHANGED run
     ELSE /\ auth_calls + Len(brokers) <= MaxCalls
          /\ run' = [IdleRun EXCEPT !.pc = "loop", !.op = "authenticate_all",
                                    !.fail_fast = FALSE, !.pos = 1, !.size = Len(brokers),
                                    !.caller = "attempt_broker_logins",
                                    !.require_at_least_one = require_at_least_one]
          /\ last' = Pending(run')
  /\ UNCHANGED <<objs, brokers, active_broker, authentication_attempts, auth_calls,
               peer, singleton>>

\* attempt_broker_logins from the return of authenticate_all to its own return
AttemptSummary ==
  /\ run.pc = "summary"
  /\ run.op = "attempt_broker_logins"
  /\ last' = [NoLast EXCEPT
                !.op = "attempt_broker_logins", !.ret = "returned",
                !.require_at_least_one = run.require_at_least_one,
                !.results = run.results, !.calls = run.calls,
                !.summary = Summarize(run.results, run.require_at_least_one)]
  /\ run' = IdleRun
  /\ UNCHANGED <<objs, brokers, active_broker, authentication_attempts, auth_calls,
               peer, singleton>>

\* a slip: the registry's plain lookup, without the availability check
GetAuthenticatedBrokerOrError_Unchecked(broker_name) ==
  /\ ReadPoint
  /\ LET broker == get_broker(broker_name) IN
     last' = [NoLast EXCEPT !.op = "get_authenticated_broker_or_error",
                            !.inst = broker,
                            !.ret = IF broker # NoInst THEN "broker" ELSE "error",
                            !.serving = last.serving]
  /\ UNCHANGED <<objs, brokers, active_broker, authentication_attempts, run, auth_calls,
               peer, singleton>>

\* get_authenticated_broker_or_error: the registry's get_broker_or_error
GetAuthenticatedBrokerOrError(broker_name) ==
  /\ ReadPoint
  /\ LET r == get_broker_or_error(broker_name, "operation") IN
     last' = [NoLast EXCEPT !.op = "get_authenticated_broker_or_error",
                            !.inst = r[1], !.payload = r[2],
                            !.ret = IF r[2] = NoPayload THEN "broker" ELSE "error",
                            !.serving = last.serving]
  /\ UNCHANGED <<objs, brokers, active_broker, authentication_attempts, run, auth_calls,
               peer, singleton>>

\* ------------------------------------------------------------ tool handlers
\* the statuses of create_success_response and create_error_response
HandlerStatuses == {"success", "error"}

\* a slip: the lookup's error wrapped into the handler's own error response
GetSchwabAccountNumbers_Rewrapped ==
  /\ ReadPoint
  /\ LET r == get_broker_or_error("schwab", "get account numbers") IN
     IF r[2] # NoPayload
     THEN last' = [NoLast EXCEPT !.op = "get_schwab_account_numbers",
                                 !.payload = [NoPayload EXCEPT !.key = "result",
                                                               !.error = r[2].error,
                                                               !.status = "error"],
                                 !.ret = "no_client_call"]
     ELSE \E backend \in HandlerStatuses :
            last' = [NoLast EXCEPT !.op = "get_schwab_account_numbers", !.inst = r[1],
                                   !.payload = [NoPayload EXCEPT !.key = "result",
                                                                 !.status = backend],
                                   !.ret = "client_call"]
  /\ UNCHANGED <<objs, brokers, active_broker, authentication_attempts, run, auth_calls,
               peer, singleton>>

\* get_schwab_account_numbers: the lookup's error as it is, else a call on
\* broker.client answered by create_success_response / create_error_response
GetSchwabAccountNumbers ==
  /\ ReadPoint
  /\ LET r == get_broker_or_error("schwab", "get account numbers") IN
     IF r[2] # NoPayload
     THEN last' = [NoLast EXCEPT !.op = "get_schwab_account_numbers",
                                 !.payload = r[2], !.ret = "no_client_call"]
     ELSE \E backend \in HandlerStatuses :
            last' = [NoLast EXCEPT !.op = "get_schwab_account_numbers", !.inst = r[1],
                                   !.payload = [NoPayload EXCEPT !.key = "result",
                                                                 !.status = backend],
                                   !.ret = "client_call"]
  /\ UNCHANGED <<objs, brokers, active_broker, authentication_attempts, run, auth_calls,
               peer, singleton>>

\* broker_status: total_configured is the length of list_brokers(),
\* total_authenticated the length of get_available_brokers()
BrokerStatus ==
  /\ ReadPoint
  /\ last' = [NoLast EXCEPT
                !.op = "broker_status", !.ret = "returned",
                !.payload = [NoPayload EXCEPT !.key = "result", !.status = "success"],
                !.report = [available_brokers |-> get_available_brokers,
                            total_configured |-> Len(list_brokers),
                            total_authenticated |-> Len(get_available_brokers)]]
  /\ UNCHANGED <<objs, brokers, active_broker, authentication_attempts, run, auth_calls,
               peer, singleton>>

\* The handler as its two steps. Up to asyncio.to_thread: the lookup, whose
\* error is returned as it is; otherwise the client call is handed to a
\* worker thread and the handler is suspended.
GetSchwabAccountNumbersLookup ==
  /\ ReadPoint
  /\ peer.pc = "idle"
  /\ LET r == get_broker_or_error("schwab", "get account numbers") IN
     IF r[2] # NoPayload
     THEN /\ last' = [NoLast EXCEPT !.op = "get_schwab_account_numbers",
                                    !.payload = r[2], !.ret = "no_client_call"]
          /\ peer' = peer
     ELSE /\ last' = [NoLast EXCEPT !.op = "get_schwab_account_numbers", !.inst = r[1],
                                    !.ret = "pending"]
          /\ peer' = [IdlePeer EXCEPT !.pc = "thread",
                                      !.op = "get_schwab_account_numbers",
                                      !.name = "schwab", !.cur = r[1]]
  /\ UNCHANGED <<objs, brokers, active_broker, authentication_attempts, run, auth_calls,
               singleton>>

\* a slip: the client call outside the handler's try block
GetSchwabAccountNumbersThread_Unguarded ==
  /\ peer.pc = "thread"
  /\ peer.op = "get_schwab_account_numbers"
  /\ IF objs[peer.cur].client = NoneVal
     THEN last' = [NoLast EXCEPT !.op = "get_schwab_account_numbers", !.inst = peer.cur,
                                 !.ret = "raise"]
     ELSE \E backend \in HandlerStatuses :
            last' = [NoLast EXCEPT !.op = "get_schwab_account_numbers", !.inst = peer.cur,
                                   !.payload = [NoPayload EXCEPT !.key = "result",
                                                                 !.status = backend],
                                   !.ret = "client_call"]
  /\ peer' = IdlePeer
  /\ UNCHANGED <<objs, brokers, active_broker, authentication_attempts, run, auth_calls,
               singleton>>

\* The worker thread evaluates broker.client.get_account_numbers(): on a
\* cleared client that is an AttributeError, which the handler's
\* `except Exception` turns into create_error_response
GetSchwabAccountNumbersThread ==
  /\ peer.pc = "thread"
  /\ peer.op = "get_schwab_account_numbers"
  /\ IF objs[peer.cur].client = NoneVal
     THEN last' = [NoLast EXCEPT !.op = "get_schwab_account_numbers", !.inst = peer.cur,
                                 !.payload = [NoPayload EXCEPT !.key = "result",
                                                               !.status = "error"],
                                 !.ret = "client_error"]
     ELSE \E backend \in HandlerStatuses :
            last' = [NoLast EXCEPT !.op = "get_schwab_account_numbers", !.inst = peer.cur,
                                   !.payload = [NoPayload EXCEPT !.key = "result",
                                                                 !.status = backend],
                                   !.ret = "client_call"]
  /\ peer' = IdlePeer
  /\ UNCHANGED <<objs, brokers, active_broker, authentication_attempts, run, auth_calls,
               singleton>>

\* ------------------------------------------------------ get_broker_registry
\* The call up to the lock: the first `if _registry is None`
GetBrokerRegistry(t) ==
  /\ callers[t].pc \in {"idle", "done"}
  /\ IF registry_ref # NoRef
     THEN /\ callers' = [callers EXCEPT ![t] = [pc |-> "done", ret |-> registry_ref]]
          /\ last' = [NoLast EXCEPT !.op = "get_broker_registry", !.ret = "returned"]
     ELSE /\ callers' = [callers EXCEPT ![t] = [pc |-> "acquire", ret |-> NoRef]]
          /\ last' = [NoLast EXCEPT !.op = "get_broker_registry", !.ret = "pending"]
  /\ UNCHANGED <<objs, brokers, active_broker, authentication_attempts, run, auth_calls,
                 peer, registry_ref, registry_lock, instances>>

\* `async with _registry_lock`: the task goes on once the lock is free.
\* Other tasks may run between the first test and the acquisition, and
\* while the lock is held.
AcquireRegistryLock(t) ==
  /\ callers[t].pc = "acquire"
  /\ registry_lock = NoTask
  /\ registry_lock' = t
  /\ callers' = [callers EXCEPT ![t].pc = "locked"]
  /\ last' = [NoLast EXCEPT !.op = "get_broker_registry", !.ret = "pending"]
  /\ UNCHANGED <<objs, brokers, active_broker, authentication_attempts, run, auth_calls,
                 peer, registry_ref, instances>>

\* a slip: the second test under the lock left out
CreateRegistry_NoRecheck(t) ==
  /\ callers[t].pc = "locked"
  /\ registry_lock = t
  /\ instances' = Append(instances, {})
  /\ registry_ref' = Len(instances) + 1
  /\ registry_lock' = NoTask
  /\ callers' = [callers EXCEPT ![t] = [pc |-> "done", ret |-> registry_ref']]
  /\ last' = [NoLast EXCEPT !.op = "get_broker_registry", !.ret = "returned"]
  /\ UNCHANGED <<objs, brokers, active_broker, authentication_attempts, run, auth_calls,
                 peer>>

\* Under the lock: the second `if _registry is None`, BrokerRegistry(),
\* the release and `return _registry`
CreateRegistry(t) ==
  /\ callers[t].pc = "locked"
  /\ registry_lock = t
  /\ IF registry_ref = NoRef
     THEN /\ instances' = Append(instances, {})
          /\ registry_ref' = Len(instances) + 1
     ELSE UNCHANGED <<instances, registry_ref>>
  /\ registry_lock' = NoTask
  /\ callers' = [callers EXCEPT ![t] = [pc |-> "done", ret |-> registry_ref']]
  /\ last' = [NoLast EXCEPT !.op = "get_broker_registry", !.ret = "returned"]
  /\ UNCHANGED <<objs, brokers, active_broker, authentication_attempts, run, auth_calls,
                 peer>>

\* register() of a broker of that name on the reference a task was given
RegisterThrough(t, name) ==
  /\ callers[t].pc = "done"
  /\ instances' = [instances EXCEPT ![callers[t].ret] = @ \cup {name}]
  /\ last' = [NoLast EXCEPT !.op = "register"]
  /\ UNCHANGED <<objs, brokers, active_broker, authentication_attempts, run, auth_calls,
                 peer, registry_ref, registry_lock, callers>>

\* ---------------------------------------------------------- process startup
\* main before setup_brokers' call of attempt_broker_logins
SetupPhase == last.op \in {"init", "construct", "register"}

\* attempt_broker_logins has returned to setup_brokers (or to a test)
LoginsAttempted ==
  /\ Quiescent
  /\ \/ last.op = "attempt_broker_logins" /\ last.ret = "returned"
     \/ last.op = "get_authenticated_broker_or_error"
     \/ last.op = "serve"

\* a slip: the server started only when a broker authenticated
StartServer_RequiresAuth ==
  /\ LoginsAttempted
  /\ ~last.serving
  /\ \E k \in 1..Len(brokers) : is_available(objs[brokers[k].val])
  /\ last' = [NoLast EXCEPT !.op = "serve", !.serving = TRUE]
  /\ UNCHANGED <<objs, brokers, active_broker, authentication_attempts, run, auth_calls,
               peer, singleton>>

\* main after asyncio.run(setup_brokers(...)): the transport is started
StartServer ==
  /\ LoginsAttempted
  /\ ~last.serving
  /\ last' = [NoLast EXCEPT !.op = "serve", !.serving = TRUE]
  /\ UNCHANGED <<objs, brokers, active_broker, authentication_attempts, run, auth_calls,
               peer, singleton>>

\* ------------------------------------------------------- specifications
\* Adapters as process startup and the test suites construct them
StartupBrokers ==
  {RobinhoodBroker("both"), RobinhoodBroker("none"),
   SchwabBroker("both"), SchwabBroker("none"), MockBroker("test", "configured")}

LookupBrokers ==
  {RobinhoodBroker("both"), SchwabBroker("both"), SchwabBroker("one"),
   MockBroker("test", "configured"), MockBroker("test", "mfa")}

\* Registry administration and authentication, one call at a time
Next ==
  \/ \E i \in Inst, b \in StartupBrokers : Construct(i, b)
  \/ \E i \in Inst : register(i)
  \/ \E n \in Names : set_active_broker(n)
  \/ \E ff \in BOOLEAN : AuthenticateAll(ff)
  \/ AuthAllLoop
  \/ AuthAllResume
  \/ \E n \in Names : EnsureAuthenticated(n)
  \/ EnsureResume
  \/ LogoutAll

Spec == Init /\ [][Next]_vars

\* Tool-call-time lookups against brokers in every authentication state
NextLookup ==
  \/ \E i \in Inst, b \in LookupBrokers : Construct(i, b)
  \/ \E i \in Inst : register(i)
  \/ \E n \in Names : set_active_broker(n)
  \/ \E n \in Names \cup {NoneVal} : GetBrokerOrError(n)
  \/ \E i \in Inst, valid \in BOOLEAN : IsAuthenticated(i, valid)
  \/ \E n \in Names : EnsureAuthenticated(n)
  \/ EnsureResume
  \/ LogoutAll

SpecLookup == Init /\ [][NextLookup]_vars

\* Adapters for the read-only queries: one that awaits inside
\* authenticate(), and two registered under the same name
ReadBrokers ==
  {RobinhoodBroker("both"), MockBroker("test", "configured"), MockBroker("test", "mfa")}

\* The synchronous queries get_broker and is_available, between the
\* operations that change what they read
NextRead ==
  \/ \E i \in Inst, b \in ReadBrokers : Construct(i, b)
  \/ \E i \in Inst : register(i)
  \/ \E n \in Names : set_active_broker(n)
  \/ \E n \in Names \cup {NoneVal} : GetBroker(n)
  \/ \E i \in Inst : IsAvailable(i)
  \/ \E i \in Inst, valid \in BOOLEAN : IsAuthenticated(i, valid)
  \/ \E n \in Names : EnsureAuthenticated(n)
  \/ EnsureResume

SpecRead == Init /\ [][NextRead]_vars

\* The Robinhood and Schwab adapters, with and without credentials
AdapterBrokers ==
  {RobinhoodBroker("both"), RobinhoodBroker("one"),
   SchwabBroker("both"), SchwabBroker("none")}

\* The adapters' own operations, called directly on registered brokers
NextAdapter ==
  \/ \E i \in Inst, b \in AdapterBrokers : Construct(i, b)
  \/ \E i \in Inst : register(i)
  \/ \E i \in Inst : Authenticate(i)
  \/ AuthenticateResume
  \/ \E i \in Inst, valid \in BOOLEAN : IsAuthenticated(i, valid)
  \/ \E i \in Inst : Logout(i)

SpecAdapter == Init /\ [][NextAdapter]_vars

\* The status tool over brokers in every status the adapters produce
NextStatus ==
  \/ \E i \in Inst, b \in AdapterBrokers : Construct(i, b)
  \/ \E i \in Inst : register(i)
  \/ \E i \in Inst : Authenticate(i)
  \/ AuthenticateResume
  \/ \E i \in Inst : Logout(i)
  \/ BrokerStatus

SpecStatus == Init /\ [][NextStatus]_vars

\* Adapters behind the tools: one of each, with credentials
ToolBrokers == {RobinhoodBroker("both"), SchwabBroker("both")}

\* Financial operations and a tool handler, on brokers in every status
\* that authenticate() and logout() produce
NextTools ==
  \/ \E i \in Inst, b \in ToolBrokers : Construct(i, b)
  \/ \E i \in Inst : register(i)
  \/ \E i \in Inst : Authenticate(i)
  \/ AuthenticateResume
  \/ \E i \in Inst : Logout(i)
  \/ \E i \in Inst, operation \in FinancialOperations : FinancialOperation(i, operation)
  \/ GetSchwabAccountNumbers

SpecTools == Init /\ [][NextTools]_vars

\* A tool handler suspended on its worker thread while the event loop
\* runs authenticate() and logout() on the same brokers
NextHandler ==
  \/ \E i \in Inst, b \in ToolBrokers : Construct(i, b)
  \/ \E i \in Inst : register(i)
  \/ \E i \in Inst : Authenticate(i)
  \/ AuthenticateResume
  \/ \E i \in Inst : Logout(i)
  \/ GetSchwabAccountNumbersLookup
  \/ GetSchwabAccountNumbersThread

SpecHandler == Init /\ [][NextHandler]_vars

\* Adapters whose authenticate() awaits, so that other tasks run meanwhile
ConcurrentBrokers == {RobinhoodBroker("both"), MockBroker("test", "configured")}

\* Two tasks at once: one runs authenticate_all or ensure_authenticated,
\* the other registers a broker or calls ensure_authenticated meanwhile
NextConcurrent ==
  \/ \E i \in Inst, b \in ConcurrentBrokers : Construct(i, b)
  \/ \E i \in Inst : register(i)
  \/ \E ff \in BOOLEAN : AuthenticateAll(ff)
  \/ AuthAllLoop
  \/ AuthAllResume
  \/ \E n \in Names : EnsureAuthenticated(n)
  \/ EnsureResume
  \/ \E i \in Inst : RegisterWhileSuspended(i)
  \/ \E n \in Names : PeerEnsureAuthenticated(n)
  \/ PeerResume

SpecConcurrent == Init /\ [][NextConcurrent]_vars

\* Tasks getting the global registry and registering brokers in it
NextSingleton ==
  \/ \E t \in Tasks : GetBrokerRegistry(t)
  \/ \E t \in Tasks : AcquireRegistryLock(t)
  \/ \E t \in Tasks : CreateRegistry(t)
  \/ \E t \in Tasks, n \in Names : RegisterThrough(t, n)

SpecSingleton == Init /\ [][NextSingleton]_vars

\* Adapters at process startup: the two real adapters, and the test
\* suites' stand-ins, which may raise out of authenticate()
CoordinatorBrokers ==
  {RobinhoodBroker("both"), RobinhoodBroker("none"), SchwabBroker("both"),
   MockBroker("test", "configured"), MockBroker("schwab", "configured")}

\* Process startup: adapters are constructed and registered, the
\* coordinator attempts the logins once, the server starts; brokers are
\* looked up once the logins have been attempted
NextStartup ==
  \/ \E i \in Inst, b \in CoordinatorBrokers : SetupPhase /\ Construct(i, b)
  \/ \E i \in Inst : SetupPhase /\ register(i)
  \/ \E req \in BOOLEAN : SetupPhase /\ AttemptBrokerLogins(req)
  \/ AuthAllLoop
  \/ AuthAllResume
  \/ AttemptSummary
  \/ \E n \in Names : LoginsAttempted /\ GetAuthenticatedBrokerOrError(n)
  \/ StartServer

SpecStartup == Init /\ [][NextStartup]_vars

\* Every adapter's authenticate() returns or raises, and the event loop
\* runs what is ready
SpecStartupLive ==
  /\ SpecStartup
  /\ WF_vars(AuthAllLoop)
  /\ WF_vars(AuthAllResume)
  /\ WF_vars(AttemptSummary)
  /\ WF_vars(StartServer)

\* ======================================================================
\* Properties of authenticate_all
\* ======================================================================
AuthAllDone == last.op = "authenticate_all" /\ last.ret # "pending"

CallsTo(i) == {c \in 1..Len(last.calls) : last.calls[c].inst = i}

Recorded(name, v) ==
  /\ name \in Keys(last.results)
  /\ DictGet(last.results, name, ~v) = v

TrueEntries == {k \in 1..Len(last.results) : last.results[k].val}

SuccessfulCalls == {c \in 1..Len(last.calls) : last.calls[c].ret = "True"}

FailedCalls == {c \in 1..Len(last.calls) : last.calls[c].ret # "True"}

ConfiguredBrokers == {k \in 1..Len(brokers) : objs[brokers[k].val].status # NOT_CONFIGURED}

\* what authenticate_all does with the broker at position k when it gets there
Processed(k) ==
  LET name == brokers[k].name
      i == brokers[k].val
  IN IF objs[i].status = NOT_CONFIGURED
     THEN Recorded(name, FALSE) /\ CallsTo(i) = {}
     ELSE /\ Cardinality(CallsTo(i)) = 1
          /\ \A c \in CallsTo(i) :
               /\ last.calls[c].name = name
               /\ Recorded(name, last.calls[c].ret = "True")

\* C1: authenticate_all(fail_fast=False) never raises, attempts every
\* configured broker whatever the earlier brokers did, and a broker whose
\* authenticate() raised is recorded False and left AUTH_FAILED with the
\* exception's message as error_message.
C1_FaultBoundary ==
  (AuthAllDone /\ ~last.fail_fast) =>
    /\ last.ret = "returned"
    /\ \A k \in ConfiguredBrokers : CallsTo(brokers[k].val) # {}
    /\ \A c \in 1..Len(last.calls) :
         last.calls[c].ret = "raise" =>
           /\ Recorded(last.calls[c].name, FALSE)
           /\ objs[last.calls[c].inst].status = AUTH_FAILED
           /\ objs[last.calls[c].inst].error_message = last.calls[c].msg

\* a raising adapter was followed by another attempt in the same run
C1_Witness ==
  /\ AuthAllDone
  /\ ~last.fail_fast
  /\ Len(last.calls) >= 2
  /\ last.calls[1].ret = "raise"

\* C2 as claimed: the map has exactly K entries, K the number of configured
\* brokers (unconfigured brokers have no entry), and exactly M True values.
C2_Original ==
  (AuthAllDone /\ ~last.fail_fast) =>
    /\ Len(last.results) = Cardinality(ConfiguredBrokers)
    /\ \A k \in 1..Len(brokers) :
         k \notin ConfiguredBrokers => brokers[k].name \notin Keys(last.results)
    /\ Cardinality(TrueEntries) = Cardinality(SuccessfulCalls)

\* C2 amended: the map has exactly N entries, one per registered broker in
\* registration order; the N - K unconfigured brokers are recorded False,
\* and exactly M entries are True, M the number of successful
\* authenticate() calls (M <= K), whichever brokers raise.
C2_Amended ==
  (AuthAllDone /\ ~last.fail_fast) =>
    /\ KeyList(last.results) = list_brokers
    /\ \A k \in 1..Len(brokers) :
         k \notin ConfiguredBrokers => Recorded(brokers[k].name, FALSE)
    /\ Cardinality(TrueEntries) = Cardinality(SuccessfulCalls)
    /\ Cardinality(SuccessfulCalls) <= Cardinality(ConfiguredBrokers)
    /\ Len(last.calls) = Cardinality(ConfiguredBrokers)

\* an unconfigured broker next to one that authenticated
C2_Witness ==
  /\ AuthAllDone
  /\ ~last.fail_fast
  /\ Cardinality(ConfiguredBrokers) < Len(brokers)
  /\ TrueEntries # {}

\* C3: a NOT_CONFIGURED broker is skipped: recorded False, no authenticate()
\* call, attempt counter and AuthInfo untouched; with every registered
\* broker NOT_CONFIGURED all results are False and no adapter is called.
C3_SkipStep ==
  (/\ run.op = "authenticate_all"
   /\ run.pc = "loop"
   /\ run.pos <= Len(brokers)
   /\ objs[brokers[run.pos].val].status = NOT_CONFIGURED)
  => /\ run'.results = Append(run.results, [name |-> brokers[run.pos].name, val |-> FALSE])
     /\ run'.calls = run.calls
     /\ UNCHANGED <<objs, authentication_attempts, auth_calls>>

C3_NoneConfigured ==
  (AuthAllDone /\ ConfiguredBrokers = {}) =>
    /\ last.calls = <<>>
    /\ TrueEntries = {}
    /\ KeyList(last.results) = list_brokers

C3_SkipsUnconfigured ==
  /\ [][C3_SkipStep]_vars
  /\ [](C3_NoneConfigured)
  /\ [](\A c \in 1..Len(run.calls) : objs[run.calls[c].inst].status # NOT_CONFIGURED)

\* a run over unconfigured brokers only has returned
C3_Witness ==
  /\ AuthAllDone
  /\ brokers # <<>>
  /\ ConfiguredBrokers = {}
  /\ Len(last.results) = Len(brokers)

\* C4: with fail_fast=True the run stops at the first configured broker
\* whose authenticate() returns False or raises: the brokers registered
\* after it have no entry, are not called and are not changed; the
\* brokers up to it are processed as without fail_fast.
C4_Stopped ==
  (AuthAllDone /\ last.fail_fast) =>
    /\ last.ret = "returned"
    /\ \A c \in FailedCalls : c = Len(last.calls)
    /\ LET stop == IF FailedCalls = {} THEN Len(brokers)
                   ELSE IndexOf(brokers, last.calls[Len(last.calls)].name)
       IN /\ \A k \in 1..stop : Processed(k)
          /\ \A k \in (stop + 1)..Len(brokers) :
               /\ brokers[k].name \notin Keys(last.results)
               /\ CallsTo(brokers[k].val) = {}
          /\ KeyList(last.results) = SubSeq(list_brokers, 1, stop)

\* a step of a run changes only the broker whose authenticate() it is in
C4_Frame ==
  (run.op = "authenticate_all" \/ run'.op = "authenticate_all") =>
    \A i \in Inst : objs'[i] # objs[i] => i \in {run.cur, run'.cur}

C4_FailFast ==
  /\ [](C4_Stopped)
  /\ [][C4_Frame]_vars
  /\ [](run.op = "authenticate_all" /\ run.cur # NoInst =>
          run.calls[Len(run.calls)].inst = run.cur)

\* a fail-fast run stopped before the last registered broker
C4_Witness ==
  /\ AuthAllDone
  /\ last.fail_fast
  /\ FailedCalls # {}
  /\ Len(last.results) < Len(brokers)
  /\ objs[brokers[Len(brokers)].val].status = NOT_AUTHENTICATED

\* ======================================================================
\* Properties of the registry's collection management
\* ======================================================================
\* C5: the active broker name is unset or a key of the broker mapping, and
\* it is unset only while nothing is registered.
C5_ActiveRegistered ==
  /\ active_broker = NoneVal <=> brokers = <<>>
  /\ active_broker # NoneVal => active_broker \in Keys(brokers)

\* the active broker was switched to the second registration, then logout_all ran
C5_Witness ==
  /\ last.op = "logout_all"
  /\ Len(brokers) = 2
  /\ active_broker = brokers[2].name

C7_RegisterKeepsActive ==
  [][/\ last'.op = "register" =>
          active_broker' = IF brokers = <<>> THEN objs[last'.inst].name ELSE active_broker
     /\ active_broker' # active_broker =>
          \/ last'.op = "set_active_broker"
          \/ last'.op = "register" /\ brokers = <<>>]_vars

\* a second broker was registered and the first is still the active one
C7_Witness ==
  /\ last.op = "register"
  /\ Len(brokers) = 2
  /\ last.inst = brokers[2].val
  /\ active_broker = brokers[1].name

\* C8: registering a second broker under a name already present replaces
\* the entry: get_broker(name) is the new object, the old one is not
\* reachable through the registry, list_brokers is unchanged and holds the
\* name once.
C8_ReplaceByName ==
  [][\A i \in Inst :
       (last'.op = "register" /\ last'.inst = i /\ objs[i].name \in Keys(brokers)) =>
         /\ (get_broker(objs[i].name))' = i
         /\ \A old \in Inst :
              (old # i /\ old = DictGet(brokers, objs[i].name, NoInst)) =>
                \A n \in Names \cup {NoneVal} : (get_broker(n))' # old
         /\ list_brokers' = list_brokers
         /\ Cardinality({k \in 1..Len(list_brokers') :
                           list_brokers'[k] = objs[i].name}) = 1]_vars

\* the second object carries the name of the first and has been registered
C8_Witness ==
  /\ last.op = "register"
  /\ last.inst = 2
  /\ objs[1].name = objs[2].name
  /\ objs[1] # objs[2]
  /\ Len(brokers) = 1

\* ======================================================================
\* Properties of the tool-call-time lookup
\* ======================================================================
\* C9: for a registered broker in any of the six statuses other than
\* AUTHENTICATED, get_broker_or_error returns (None, payload) with status
\* "broker_unavailable", the broker's name and the string value of its
\* status at the time of the call; for an AUTHENTICATED broker it returns
\* (broker, None).
C9_Unavailable ==
  [][\A n \in Names :
       (GetBrokerOrError(n) /\ n \in Keys(brokers)) =>
         LET i == DictGet(brokers, n, NoInst)
             st == objs[i].status
         IN IF st = AUTHENTICATED
            THEN /\ last'.ret = "broker"
                 /\ last'.inst = i
                 /\ last'.payload = NoPayload
            ELSE /\ last'.ret = "error"
                 /\ last'.inst = NoInst
                 /\ last'.payload.status = "broker_unavailable"
                 /\ last'.payload.broker = n
                 /\ last'.payload.auth_status =
                      CASE st = NOT_CONFIGURED -> "not_configured"
                        [] st = NOT_AUTHENTICATED -> "not_authenticated"
                        [] st = AUTHENTICATING -> "authenticating"
                        [] st = AUTH_FAILED -> "auth_failed"
                        [] st = TOKEN_EXPIRED -> "token_expired"
                        [] st = MFA_REQUIRED -> "mfa_required"]_vars

\* a lookup of a broker whose session had expired
C9_Witness ==
  /\ last.op = "get_broker_or_error"
  /\ last.ret = "error"
  /\ last.payload.status = "broker_unavailable"
  /\ last.payload.auth_status = "token_expired"
  /\ \E k \in 1..Len(brokers) :
       /\ brokers[k].name = last.payload.broker
       /\ objs[brokers[k].val].status = TOKEN_EXPIRED

\* C10: get_broker_or_error for a name that is not registered, or for None
\* while no broker is active, returns (None, payload) with status
\* "broker_not_found", which is not the broker_unavailable outcome, and
\* leaves the registry and the brokers unchanged.
C10_NotFound ==
  [][\A n \in Names \cup {NoneVal} :
       (/\ GetBrokerOrError(n)
        /\ IF n = NoneVal THEN active_broker = NoneVal ELSE n \notin Keys(brokers)) =>
         /\ last'.ret = "error"
         /\ last'.inst = NoInst
         /\ last'.payload.status = "broker_not_found"
         /\ last'.payload.status # "broker_unavailable"
         /\ last'.payload.broker = Absent
         /\ UNCHANGED <<objs, brokers, active_broker, authentication_attempts,
                        run, auth_calls>>]_vars

\* an unknown name was looked up in a registry that holds an unavailable broker
C10_Witness ==
  /\ last.op = "get_broker_or_error"
  /\ last.payload.status = "broker_not_found"
  /\ brokers # <<>>
  /\ \E k \in 1..Len(brokers) : ~is_available(objs[brokers[k].val])

C13_LogoutResets ==
  [][last'.op = "logout_all" =>
       \A k \in 1..Len(last'.calls) :
         objs[last'.calls[k].inst].kind \in {"robinhood", "schwab"} =>
           /\ last'.calls[k].ret = "None"
           /\ objs'[last'.calls[k].inst].status = NOT_AUTHENTICATED
           /\ objs'[last'.calls[k].inst].error_message = NoneVal]_vars

\* C14: a constructed broker whose status is NOT_CONFIGURED stays
\* NOT_CONFIGURED under every operation of the registry, so its
\* is_configured() never becomes true.
C14_NotConfiguredTerminal ==
  [][\A i \in Inst :
       (objs[i] # NoObj /\ ~is_configured(objs[i])) => ~is_configured(objs'[i])]_vars

\* ======================================================================
\* Properties of the base broker
\* ======================================================================
\* C15: for every adapter and each of the seven statuses, is_available()
\* is true exactly when the status is AUTHENTICATED; a call returns a
\* boolean and changes nothing.
C15_IsAvailable ==
  /\ [](\A k \in Kinds, n \in Names, s \in BrokerAuthStatus :
          is_available([BaseBroker(k, n) EXCEPT !.status = s]) <=> s = AUTHENTICATED)
  /\ [][\A i \in Inst :
          IsAvailable(i) =>
            /\ last'.ret = IF objs[i].status = AUTHENTICATED THEN "True" ELSE "False"
            /\ UNCHANGED <<objs, brokers, active_broker, authentication_attempts,
                           run, auth_calls>>]_vars

\* asked of an adapter in the middle of its authenticate()
C15_Witness ==
  /\ last.op = "is_available"
  /\ last.ret = "False"
  /\ objs[last.inst].status = AUTHENTICATING
  /\ run.pc = "await"

\* ======================================================================
\* Properties of the authentication coordinator
\* ======================================================================
CoordinatorDone == last.op = "attempt_broker_logins"

\* the (successful, total, failed) tuple, without what was logged
Tuple(summary) == <<summary.successful, summary.total, summary.failed>>

FalseEntries == {k \in 1..Len(last.results) : ~last.results[k].val}

\* C16: attempt_broker_logins on a registry without brokers returns
\* (0, 0, []) for either value of require_at_least_one; it does not call
\* authenticate_all, does not raise and changes nothing.
C16_NoBrokers ==
  [][\A req \in BOOLEAN :
       (AttemptBrokerLogins(req) /\ brokers = <<>>) =>
         /\ last'.op = "attempt_broker_logins"
         /\ last'.ret = "returned"
         /\ Tuple(last'.summary) = <<0, 0, <<>>>>
         /\ last'.calls = <<>>
         /\ run' = IdleRun
         /\ UNCHANGED <<objs, brokers, active_broker, authentication_attempts,
                        run, auth_calls>>]_vars

\* called with require_at_least_one=True before anything was registered
C16_Witness ==
  /\ CoordinatorDone
  /\ brokers = <<>>
  /\ last.require_at_least_one
  /\ objs[1] # NoObj

\* C17: attempt_broker_logins calls authenticate_all with fail_fast=False
\* and returns (successful, total, failed) with total the number of
\* entries of the result map, successful the number of True entries and
\* failed the names of the False entries in registration order, so that
\* successful + len(failed) = total.
C17_Counts ==
  /\ run.caller = "attempt_broker_logins" => ~run.fail_fast
  /\ (CoordinatorDone /\ brokers # <<>>) =>
       LET failed == last.summary.failed IN
       /\ ~last.fail_fast
       /\ KeyList(last.results) = list_brokers
       /\ last.summary.total = Len(last.results)
       /\ last.summary.successful = Cardinality(TrueEntries)
       /\ Len(failed) = Cardinality(FalseEntries)
       /\ {failed[k] : k \in 1..Len(failed)} = {last.results[k].name : k \in FalseEntries}
       /\ \A a, b \in 1..Len(failed) :
            a < b => IndexOf(brokers, failed[a]) < IndexOf(brokers, failed[b])
       /\ last.summary.successful + Len(failed) = last.summary.total

\* one broker authenticated, the one registered after it did not
C17_Witness ==
  /\ CoordinatorDone
  /\ Len(last.results) = 2
  /\ last.results[1].val
  /\ ~last.results[2].val
  /\ Tuple(last.summary) = <<1, 2, <<last.results[2].name>>>>

\* C18: right after attempt_broker_logins returned (s, t, failed),
\* get_authenticated_broker_or_error(name) returns (broker, None) for
\* every attempted name not in failed and (None, payload) with status
\* "broker_unavailable" for every name in failed; with Robinhood
\* succeeding and Schwab failing the tuple is (1, 2, ["schwab"]),
\* Robinhood is returned and Schwab is reported with auth_status
\* "auth_failed".
C18_LookupAfterLogins ==
  /\ [][\A n \in Names :
          (/\ CoordinatorDone
           /\ n \in Keys(last.results)
           /\ GetAuthenticatedBrokerOrError(n)) =>
            IF \E k \in 1..Len(last.summary.failed) : last.summary.failed[k] = n
            THEN /\ last'.ret = "error"
                 /\ last'.inst = NoInst
                 /\ last'.payload.status = "broker_unavailable"
                 /\ last'.payload.broker = n
            ELSE /\ last'.ret = "broker"
                 /\ last'.inst = DictGet(brokers, n, NoInst)
                 /\ last'.inst # NoInst
                 /\ last'.payload = NoPayload]_vars
  /\ []((/\ CoordinatorDone
         /\ list_brokers = <<"robinhood", "schwab">>
         /\ Len(last.calls) = 2
         /\ last.calls[1].ret = "True"
         /\ last.calls[2].ret # "True") =>
          /\ Tuple(last.summary) = <<1, 2, <<"schwab">>>>
          /\ get_broker_or_error("robinhood", "x") = <<brokers[1].val, NoPayload>>
          /\ get_broker_or_error("schwab", "x")[1] = NoInst
          /\ get_broker_or_error("schwab", "x")[2].broker = "schwab"
          /\ get_broker_or_error("schwab", "x")[2].auth_status = "auth_failed")

\* Robinhood authenticated, Schwab's login failed, and Schwab was looked up
C18_Witness ==
  /\ last.op = "get_authenticated_broker_or_error"
  /\ last.ret = "error"
  /\ last.payload.broker = "schwab"
  /\ last.payload.auth_status = "auth_failed"
  /\ list_brokers = <<"robinhood", "schwab">>
  /\ objs[brokers[1].val].status = AUTHENTICATED
  /\ KeyList(authentication_attempts) = list_brokers
  /\ \A k \in 1..2 : authentication_attempts[k].val = 1

\* C19: require_at_least_one changes what attempt_broker_logins logs and
\* nothing else: the flag is only carried along until the summary, the
\* tuple returned is the one either value of the flag gives, the
\* coordinator's own steps change neither registry nor brokers, and it
\* returns for both values.
C19_FlagOnlyLogs ==
  /\ [](CoordinatorDone =>
          /\ last.ret = "returned"
          /\ \A req \in BOOLEAN :
               Tuple(Summarize(last.results, req)) = Tuple(last.summary))
  /\ [](run.pc = "summary" =>
          Tuple(Summarize(run.results, TRUE)) = Tuple(Summarize(run.results, FALSE)))
  /\ [][run.caller = "attempt_broker_logins" =>
          \/ run'.require_at_least_one = run.require_at_least_one
          \/ /\ run' = IdleRun
             /\ last'.require_at_least_one = run.require_at_least_one]_vars
  /\ [][(AttemptSummary \/ \E req \in BOOLEAN : AttemptBrokerLogins(req)) =>
          UNCHANGED <<objs, brokers, active_broker, authentication_attempts,
                      auth_calls>>]_vars

\* nothing authenticated, and the flag made the coordinator log one line more
C19_Witness ==
  /\ CoordinatorDone
  /\ last.require_at_least_one
  /\ last.summary.successful = 0
  /\ last.summary.total = 2
  /\ Len(last.summary.log) = 3

\* C20: with every authenticate() call returning or raising,
\* attempt_broker_logins, once called, returns its tuple and raises
\* nothing, whatever the brokers do, and the process then starts serving
\* whatever the tuple is.
C20_StartupProceeds ==
  /\ [](CoordinatorDone => last.ret = "returned")
  /\ (run.caller = "attempt_broker_logins") ~> CoordinatorDone
  /\ CoordinatorDone ~> last.serving

\* the server is up although both adapters raised out of authenticate()
C20_Witness ==
  /\ last.serving
  /\ Len(brokers) = 2
  /\ \A k \in 1..2 :
       /\ objs[brokers[k].val].kind = "mock"
       /\ objs[brokers[k].val].status = AUTH_FAILED
       /\ objs[brokers[k].val].error_message = "OAuth failed"

\* ------------------------------------------------------------------ C21
\* a direct authenticate() call on a Robinhood or Schwab adapter has returned
AuthenticateDone ==
  /\ last.op = "authenticate"
  /\ last.ret # "pending"
  /\ objs[last.inst].kind \in {"robinhood", "schwab"}

\* C21 as stated: authenticate() of the Robinhood and Schwab adapters never
\* raises; it returns false with status AuthFailed and a non-empty
\* errorMessage on every failure, and true only with status Authenticated.
C21_NonEmptyMessage ==
  AuthenticateDone =>
    /\ last.ret \in {"True", "False"}
    /\ last.ret = "True" => objs[last.inst].status = AUTHENTICATED
    /\ last.ret = "False" =>
         /\ objs[last.inst].status = AUTH_FAILED
         /\ ~Falsy(objs[last.inst].error_message)

\* C21 amended: authenticate() of the Robinhood and Schwab adapters never
\* raises; on every failure it returns false with status AuthFailed and
\* errorMessage set, to the failure's fixed text or to the text of the
\* exception (empty when the exception carries none); it returns true only
\* with status Authenticated.
C21_NeverRaises ==
  AuthenticateDone =>
    /\ last.ret \in {"True", "False"}
    /\ last.ret = "True" => objs[last.inst].status = AUTHENTICATED
    /\ last.ret = "False" =>
         /\ objs[last.inst].status = AUTH_FAILED
         /\ objs[last.inst].error_message # NoneVal
         /\ Falsy(objs[last.inst].error_message) =>
              objs[last.inst].error_message \in ExcMessages

\* the OAuth library raised an exception without text: false, AuthFailed,
\* and an empty errorMessage
C21_Witness ==
  /\ AuthenticateDone
  /\ objs[last.inst].kind = "schwab"
  /\ last.ret = "False"
  /\ objs[last.inst].status = AUTH_FAILED
  /\ objs[last.inst].error_message = ""

\* ------------------------------------------------------------------ C22
\* C22: in every reachable state of a broker, lastSuccessfulAuth is set
\* only if its status is Authenticated.
C22_LastSuccessOnlyAuthenticated ==
  \A i \in Inst :
    objs[i].last_successful_auth # NoneVal => objs[i].status = AUTHENTICATED

\* ------------------------------------------------------------------ C23
\* C23: after authenticate() has returned true the broker is Authenticated
\* with errorMessage unset, after a logout() that leaves it NotAuthenticated
\* errorMessage is unset, and no broker is ever Authenticated while it
\* carries an errorMessage.
C23_ErrorCleared ==
  /\ \A i \in Inst :
       objs[i].status = AUTHENTICATED => objs[i].error_message = NoneVal
  /\ (last.op = "authenticate" /\ last.ret = "True") =>
       /\ objs[last.inst].status = AUTHENTICATED
       /\ objs[last.inst].error_message = NoneVal
  /\ (last.op = "logout" /\ objs[last.inst].status = NOT_AUTHENTICATED) =>
       objs[last.inst].error_message = NoneVal

\* a broker whose every login failed (an attempt, no success) has been
\* logged out: NotAuthenticated, and the failure's message is gone
C23_Witness ==
  /\ last.op = "logout"
  /\ objs[last.inst].status = NOT_AUTHENTICATED
  /\ objs[last.inst].last_auth_attempt # NoneVal
  /\ objs[last.inst].last_successful_auth = NoneVal
  /\ objs[last.inst].error_message = NoneVal

\* ------------------------------------------------------------------ C24
ListedTransitions ==
  {<<NOT_AUTHENTICATED, AUTHENTICATING>>, <<AUTH_FAILED, AUTHENTICATING>>,
   <<TOKEN_EXPIRED, AUTHENTICATING>>,
   <<AUTHENTICATING, AUTHENTICATED>>, <<AUTHENTICATING, AUTH_FAILED>>,
   <<AUTHENTICATING, MFA_REQUIRED>>,
   <<AUTHENTICATED, TOKEN_EXPIRED>>, <<AUTHENTICATED, NOT_AUTHENTICATED>>}

\* C24: every status change of an existing broker, under any sequence of
\* registry operations, is one of the listed transitions of the lifecycle.
C24_ListedTransitions ==
  [][\A i \in Inst :
       (objs[i] # NoObj /\ objs'[i].status # objs[i].status) =>
         <<objs[i].status, objs'[i].status>> \in ListedTransitions]_vars

\* ------------------------------------------------------------------ C25
FinancialDone == last.op \in FinancialOperations

\* C25: a financial operation on a broker that is not Authenticated returns
\* the broker_unavailable payload for the broker's current status and makes
\* no call to the brokerage backend; whenever the backend is called, for an
\* order or anything else, the broker is Authenticated.
C25_UnavailableNoBackend ==
  FinancialDone =>
    /\ objs[last.inst].status # AUTHENTICATED =>
         /\ last.ret = "no_backend"
         /\ last.payload.key = "result"
         /\ last.payload.status = "broker_unavailable"
         /\ last.payload.broker = objs[last.inst].name
         /\ last.payload.auth_status = StatusValue(objs[last.inst].status)
         /\ last.payload = create_unavailable_response(objs[last.inst], OperationLabel(last.op))
    /\ last.ret = "backend" => objs[last.inst].status = AUTHENTICATED

\* a buy order on a Robinhood broker whose login failed: broker_unavailable
C25_Witness ==
  /\ last.op = "order_buy_market"
  /\ objs[last.inst].kind = "robinhood"
  /\ objs[last.inst].status = AUTH_FAILED
  /\ last.payload.status = "broker_unavailable"
  /\ last.payload.auth_status = "auth_failed"
  /\ last.ret = "no_backend"

\* ------------------------------------------------------------------ C26
EnsureDone == last.op = "ensure_authenticated" /\ last.ret # "pending"

\* C26: ensure_authenticated(name) returns true without calling
\* authenticate() when the broker is available, false without calling it
\* when the name is unknown or the broker is NotConfigured, and otherwise
\* calls authenticate() once and returns its boolean, false if it raises;
\* it never raises itself.
C26_EnsureAuthenticated ==
  /\ [](EnsureDone => last.ret \in {"True", "False"})
  /\ [][\A n \in Names : EnsureAuthenticated(n) =>
          IF get_broker(n) = NoInst
          THEN last'.ret = "False" /\ UNCHANGED <<objs, auth_calls, run>>
          ELSE IF objs[get_broker(n)].status = AUTHENTICATED
          THEN last'.ret = "True" /\ UNCHANGED <<objs, auth_calls, run>>
          ELSE IF objs[get_broker(n)].status = NOT_CONFIGURED
          THEN last'.ret = "False" /\ UNCHANGED <<objs, auth_calls, run>>
          ELSE /\ last'.ret = "pending"
               /\ auth_calls' = auth_calls + 1
               /\ run'.cur = get_broker(n)]_vars
  /\ [][EnsureResume =>
          /\ auth_calls' = auth_calls
          /\ Len(last'.calls) = 1
          /\ last'.calls[1].inst = run.cur
          /\ last'.ret = (IF last'.calls[1].ret = "True" THEN "True" ELSE "False")]_vars

\* the one authenticate() call raised, and ensure_authenticated returned false
C26_Witness ==
  /\ EnsureDone
  /\ last.ret = "False"
  /\ Len(last.calls) = 1
  /\ last.calls[1].ret = "raise"

\* ------------------------------------------------------------------ C27
Vocabulary ==
  {"success", "error", "broker_unavailable", "broker_not_found",
   "no_authenticated_brokers"}

\* C27: every payload handed to a tool caller has the shape {result: {...}}
\* with result.status one of the five values of the response envelope.
C27_Envelope ==
  last.payload # NoPayload =>
    /\ last.payload.key = "result"
    /\ last.payload.status \in Vocabulary

\* ------------------------------------------------------------------ C28
HandlerDone == last.op = "get_schwab_account_numbers"

\* C28: a tool handler given an error by get_authenticated_broker_or_error
\* returns exactly that payload and makes no call on a broker client; it
\* calls the client only when the error is none, on the broker it was given.
C28_ErrorVerbatim ==
  HandlerDone =>
    /\ get_broker_or_error("schwab", "get account numbers")[2] # NoPayload =>
         /\ last.payload = get_broker_or_error("schwab", "get account numbers")[2]
         /\ last.ret = "no_client_call"
    /\ last.ret = "client_call" =>
         /\ get_broker_or_error("schwab", "get account numbers")[2] = NoPayload
         /\ last.inst = get_broker("schwab")
         /\ is_available(objs[last.inst])
         /\ objs[last.inst].client # NoneVal

\* Schwab's login failed; the handler hands back its broker_unavailable
\* payload and leaves the client alone
C28_Witness ==
  /\ HandlerDone
  /\ last.ret = "no_client_call"
  /\ last.payload.status = "broker_unavailable"
  /\ last.payload.broker = "schwab"
  /\ last.payload.auth_status = "auth_failed"

\* ------------------------------------------------------------------ C29
\* C29: authenticate() on a Schwab adapter constructed without api_key and
\* app_secret returns false and leaves the status NotConfigured.
C29_MissingCredentials ==
  [][\A i \in Inst :
       (/\ run.pc = "await" /\ run.op = "authenticate" /\ run.cur = i
        /\ objs[i].kind = "schwab"
        /\ objs[i].requires_setup
        /\ AuthenticateResume) =>
         /\ last'.ret = "False"
         /\ objs'[i].status = NOT_CONFIGURED]_vars

\* ------------------------------------------------------------------ C30
\* C30: authenticate() or logout() on one broker leaves every other
\* broker's AuthInfo as it was.
C30_OthersUnchanged ==
  [][\A i \in Inst :
       (Authenticate(i) \/ Logout(i) \/ (AuthenticateResume /\ run.cur = i)) =>
         \A j \in Inst \ {i} : objs'[j] = objs[j]]_vars

\* one of two registered brokers has been logged out, and the other one is
\* still Authenticated
C30_Witness ==
  /\ last.op = "logout"
  /\ Len(brokers) = 2
  /\ objs[last.inst].status = NOT_AUTHENTICATED
  /\ objs[last.inst].last_successful_auth # NoneVal
  /\ \E j \in Inst \ {last.inst} :
       /\ objs[j].name \in Keys(brokers)
       /\ objs[j].status = AUTHENTICATED

\* ------------------------------------------------------------------ C31
\* the authenticate() calls of the running authenticate_all not yet finished
PendingCalls == {c \in 1..Len(run.calls) : run.calls[c].ret = "pending"}

\* C31: within one run of authenticate_all the brokers are authenticated one
\* at a time in registration order: a broker's authenticate() starts only
\* when every broker before it has been dealt with and every earlier call
\* has returned or raised, so the run has at most one call in progress.
C31_Sequential ==
  /\ [](run.op = "authenticate_all" =>
         /\ Cardinality(PendingCalls) <= 1
         /\ PendingCalls # {} <=> run.pc = "await"
         /\ \A c \in PendingCalls :
              c = Len(run.calls) /\ run.calls[c].inst = run.cur
         /\ \A c, d \in 1..Len(run.calls) :
              c < d => IndexOf(brokers, run.calls[c].name)
                         < IndexOf(brokers, run.calls[d].name))
  /\ [][(run.op = "authenticate_all" /\ Len(run'.calls) > Len(run.calls)) =>
          /\ PendingCalls = {}
          /\ Len(run'.calls) = Len(run.calls) + 1
          /\ run'.calls[Len(run'.calls)].name = brokers[run.pos].name
          /\ \A k \in 1..(run.pos - 1) : brokers[k].name \in Keys(run.results)]_vars

\* the second broker's authenticate() is in progress, the first one's is over
C31_Witness ==
  /\ run.op = "authenticate_all"
  /\ run.pc = "await"
  /\ Len(run.calls) = 2
  /\ run.calls[1].ret # "pending"
  /\ run.calls[2].ret = "pending"
  /\ run.cur = brokers[2].val
  /\ objs[run.cur].status = AUTHENTICATING

\* ------------------------------------------------------------------ C32
Returned == {t \in Tasks : callers[t].pc = "done"}

\* C32: get_broker_registry returns the same instance on every call, also
\* when several tasks make the first call concurrently: one instance at most
\* is ever created, the global reference never changes once set, and what is
\* registered through one returned reference is seen through every other.
C32_Singleton ==
  /\ [](/\ Len(instances) <= 1
         /\ registry_ref \in 0..Len(instances)
         /\ \A t \in Returned :
              /\ callers[t].ret # NoRef
              /\ callers[t].ret = registry_ref
         /\ \A u, v \in Returned :
              /\ callers[u].ret = callers[v].ret
              /\ instances[callers[u].ret] = instances[callers[v].ret])
  /\ [][registry_ref # NoRef => registry_ref' = registry_ref]_vars

\* two tasks made the first call together: one has created the registry and
\* registered a broker, the other holds the lock and has yet to look again
C32_Witness ==
  /\ \E t \in Tasks : callers[t].pc = "locked"
  /\ \E u \in Returned : instances[callers[u].ret] # {}
  /\ Len(instances) = 1

\* ------------------------------------------------------------------ C33
\* C33: authenticate_all never raises and returns its map also when another
\* task registers a broker while it is suspended in an adapter, and the
\* registry stays consistent: the active name is registered and every
\* registered broker has an attempt counter.
C33_RegisterDuringRun ==
  /\ AuthAllDone => last.ret = "returned"
  /\ active_broker = NoneVal \/ active_broker \in Keys(brokers)
  /\ Keys(brokers) \subseteq Keys(authentication_attempts)

\* ------------------------------------------------------------------ C34
\* C34: ensure_authenticated has no mutual exclusion per broker: called for
\* a configured, unavailable broker whose authenticate() another call has
\* in progress, it starts a second authenticate() on that broker.
C34_NoDeduplication ==
  [][\A n \in Names :
       (/\ PeerEnsureAuthenticated(n)
        /\ get_broker(n) # NoInst
        /\ get_broker(n) = run.cur
        /\ ~is_available(objs[run.cur])
        /\ is_configured(objs[run.cur])) =>
         /\ auth_calls' = auth_calls + 1
         /\ peer'.pc = "await"
         /\ peer'.cur = run.cur
         /\ run'.pc = "await"]_vars

\* two ensure_authenticated calls have the same broker's authenticate() in
\* progress at the same time
C34_Witness ==
  /\ run.pc = "await"
  /\ run.op = "ensure_authenticated"
  /\ peer.pc = "await"
  /\ peer.cur = run.cur
  /\ objs[run.cur].status = AUTHENTICATING

\* ------------------------------------------------------------------ C35
\* C35: is_authenticated() changes a status only from Authenticated to
\* TokenExpired; when it returns false the broker is not available
\* afterwards, and when it returns true the status is Authenticated.
C35_IsAuthenticated ==
  [][\A i \in Inst, valid \in BOOLEAN :
       IsAuthenticated(i, valid) =>
         /\ objs'[i].status # objs[i].status =>
              (objs[i].status = AUTHENTICATED /\ objs'[i].status = TOKEN_EXPIRED)
         /\ last'.ret = "False" => objs'[i].status # AUTHENTICATED
         /\ last'.ret = "True" => objs'[i].status = AUTHENTICATED]_vars

\* ------------------------------------------------------------------ C37
\* C37: a Schwab adapter's client is set only while its status is
\* Authenticated, and it is unset whenever authenticate() has returned false.
C37_ClientOnlyAuthenticated ==
  /\ \A i \in Inst :
       (objs[i].kind = "schwab" /\ objs[i].client # NoneVal) =>
         objs[i].status = AUTHENTICATED
  /\ (AuthenticateDone /\ objs[last.inst].kind = "schwab" /\ last.ret = "False") =>
       objs[last.inst].client = NoneVal

\* ------------------------------------------------------------------ C36
\* C36: a tool call whose broker is logged out (client cleared) between
\* the lookup and the use of the client still returns a payload under
\* "result" with status "error"; no exception leaves the handler.
C36_LogoutDuringTool ==
  /\ last.op = "get_schwab_account_numbers" => last.ret # "raise"
  /\ (last.op = "get_schwab_account_numbers" /\ last.ret = "client_error") =>
       /\ last.payload.key = "result"
       /\ last.payload.status = "error"

C36_Witness ==
  /\ last.op = "get_schwab_account_numbers"
  /\ last.ret = "client_error"
  /\ objs[last.inst].client = NoneVal
  /\ objs[last.inst].status = NOT_AUTHENTICATED
  /\ last.payload.status = "error"

\* ------------------------------------------------------------------ C38
\* C38: broker status reports total_authenticated as the number of
\* brokers in Authenticated and total_configured as the number of
\* registered brokers that are configured, so that total_authenticated <=
\* total_configured <= number registered, and every available name is
\* registered.
ConfiguredNames == {n \in Keys(brokers) : is_configured(objs[DictGet(brokers, n, NoInst)])}

AuthenticatedNames ==
  {n \in Keys(brokers) : objs[DictGet(brokers, n, NoInst)].status = AUTHENTICATED}

C38_StatusCounts ==
  last.op = "broker_status" =>
    /\ last.report.total_authenticated = Cardinality(AuthenticatedNames)
    /\ last.report.total_configured = Cardinality(ConfiguredNames)
    /\ last.report.total_authenticated <= last.report.total_configured
    /\ last.report.total_configured <= Len(brokers)
    /\ \A k \in 1..Len(last.report.available_brokers) :
         last.report.available_brokers[k] \in Keys(brokers)

\* ------------------------------------------------------------------ C39
\* C39: when authenticate_all returns, the boolean recorded for each name
\* equals is_available() of the broker registered under that name.
C39_ResultsMatchAvailability ==
  (AuthAllDone /\ last.ret = "returned") =>
    \A k \in 1..Len(last.results) :
      /\ last.results[k].name \in Keys(brokers)
      /\ last.results[k].val =
           is_available(objs[DictGet(brokers, last.results[k].name, NoInst)])

\* a run that recorded both a success and a failure
C39_Witness ==
  /\ AuthAllDone
  /\ last.ret = "returned"
  /\ \E j, k \in 1..Len(last.results) :
       /\ last.results[j].val
       /\ objs[DictGet(brokers, last.results[j].name, NoInst)].status = AUTHENTICATED
       /\ ~last.results[k].val
       /\ objs[DictGet(brokers, last.results[k].name, NoInst)].status = AUTH_FAILED

\* ------------------------------------------------------------------ C40
\* C40: after authenticate_all or ensure_authenticated returns, no
\* attempted broker is left Authenticating, and a raised exception has
\* left the broker in AuthFailed with the exception's message on both paths.
C40_RaisedLeavesAuthFailed ==
  (AuthAllDone \/ EnsureDone) =>
    \A c \in 1..Len(last.calls) :
      /\ objs[last.calls[c].inst].status # AUTHENTICATING
      /\ last.calls[c].ret = "raise" =>
           /\ objs[last.calls[c].inst].status = AUTH_FAILED
           /\ objs[last.calls[c].inst].error_message = last.calls[c].msg
====
